---- MODULE Spec2Model ----
(***************************************************************************)
(* Model of the Steam library tooling of MiyaShell                         *)
(* (src/backend/steam_library.py): the KeyValues tokenizer and parser, the *)
(* manifest extractor and the reconciler merge_games; the download view of *)
(* steam_downloads.py; the snapshot writers and the --watch loops of the   *)
(* scripts; the passes of proton_ge_updater.py.                            *)
(*                                                                         *)
(* Python strings are sequences of code points (naturals); a Python dict   *)
(* is a sequence of entries [k, v] in insertion order; Game objects live   *)
(* on a heap and are held by reference, as in Python.                      *)
(***************************************************************************)
EXTENDS Integers, Sequences, FiniteSets, TLC

VARIABLES
    manifests,   \* the appmanifest_*.acf files on disk: slot -> AppState block or NoFile
    cache,       \* the files present in appcache/librarycache: set of <<appid, candidate>>
    response,    \* the games the Steam Web API reports as owned: a set of owned records
    heap,        \* the Game objects allocated by the current run: ref -> Game
    installed,   \* dict appid -> ref built by parse_installed_games
    owned,       \* dict appid -> owned record built by fetch_owned_games_from_webapi
    games,       \* the list of refs returned by merge_games
    snapshot,    \* the "games" array of the last library.json written
    runs,        \* how many runs of main have written a snapshot
    pc,          \* position of the current run of main
    doc,         \* the key/value pairs a document was written from (kept for reference)
    text,        \* the text of a KeyValues file
    stream,      \* the token generator: [toks, err, off], the tokens it yields and how it ends
    result,      \* what parse_keyvalues gave: [ok, obj, pos, error]
    kvpc,        \* position of load_keyvalues_file
    env,         \* the STEAM_ROOT environment variable (None when unset)
    fsys,        \* the directories: [resolve, apps], which directory each path leads to
                 \* (0 = nothing there) and whether that directory has a steamapps directory
    vdf,         \* steamapps/libraryfolders.vdf of the Steam root: [kind, stream]
    root,        \* what find_steam_root gave: a path, or None after FileNotFoundError
    libs,        \* the list discover_library_paths returned
    locpc,       \* position of the locator
    downloads,   \* the "downloads" list of steam_downloads.generate
    dlpc,        \* position of steam_downloads.generate
    ge_cfg,      \* proton_ge_updater's options: [notify, auto_install, keep]
    ge_release,  \* which of GeTags the latest release on GitHub is
    ge_dirs,     \* the GE-Proton directories in compatibilitytools.d
    ge_out,      \* the status file proton_ge.json (NoStatus when there is none)
    ge_notes,    \* the notifications sent with notify-send so far
    ge_passes,   \* what each pass of run_once did: [outcome, tag, sent, last_notified]
    wr_procs,    \* the running instances of a writer script
    wr_dir,      \* the directory of the out path: file name -> inode (0 = no such file)
    wr_inodes,   \* the files: inode -> the parts written into it
    wr_pc,       \* instance -> where it is in its snapshot write
    wr_fd,       \* instance -> the file it has open: [inode, pos, id]
    wr_count,    \* how many snapshot writes the instances have begun
    wr_published,\* the writes whose replace() was done, in order
    rd_fd,       \* the file the reader has open (0 = none found, -1 = not opened yet)
    rd_seen,     \* what the reader read last
    wt_script,   \* which script runs with --watch: "steam_library" or "steam_downloads"
    wt_listed,   \* the libraries the descriptor libraryfolders.vdf lists now
    wt_disk,     \* the manifest files now: slot -> [mtime, version] (Absent when none)
    wt_clock,    \* the time of the last change on disk
    wt_libs,     \* the watch loop's libs
    wt_last_mtime, \* the watch loop's last_mtime
    wt_snapshot, \* the manifests the last snapshot written was made from
    wt_pc        \* where the watch loop is: about to poll, or in sleep(interval)

libvars == <<manifests, cache, response, heap, installed, owned, games, snapshot, runs, pc>>
kvvars == <<doc, text, stream, result, kvpc>>
locvars == <<env, fsys, vdf, root, libs, locpc>>
dlvars == <<downloads, dlpc>>
gevars == <<ge_cfg, ge_release, ge_dirs, ge_out, ge_notes, ge_passes>>
wrvars == <<wr_procs, wr_dir, wr_inodes, wr_pc, wr_fd, wr_count, wr_published, rd_fd, rd_seen>>
wtvars ==
    <<wt_script, wt_listed, wt_disk, wt_clock, wt_libs, wt_last_mtime, wt_snapshot, wt_pc>>
extvars == <<gevars, wrvars, wtvars>>
vars == <<libvars, kvvars, locvars, dlvars, extvars>>

-----------------------------------------------------------------------------
(* Bounds *)

MaxFiles == 2    \* manifest files present on disk
MaxOwned == 2    \* games in the Web API response
MaxRuns  == 2    \* runs of main over the same disk contents
MaxToks  == 6    \* tokens in a stream handed to parse_keyvalues
MaxPairs == 2    \* key/value pairs at the top level of a written document
MaxLen   == 4    \* characters in a raw text handed to tokenize_keyvalues
MaxPasses == 3   \* passes of run_once of the Proton-GE updater
MaxWrites == 3   \* snapshot writes begun by the instances of a writer script
MaxChanges == 2  \* changes made on disk while a script watches

-----------------------------------------------------------------------------
(* Characters and strings *)

\* the characters the code names
Ch == [tab |-> 9, nl |-> 10, space |-> 32, quote |-> 34, plus |-> 43, minus |-> 45,
       slash |-> 47, zero |-> 48, backslash |-> 92, lbrace |-> 123, rbrace |-> 125]

\* str.isspace for the characters below U+0100
IsSpace(c) == c \in {9, 10, 11, 12, 13, 28, 29, 30, 31, 32, 133, 160}

IsDigit(c) == c >= 48 /\ c <= 57

\* str.casefold, one character: ASCII letters and Latin-1 capitals fold to lower
\* case (the two Latin-1 characters that fold to something else, U+00B5 and U+00DF,
\* occur in no string of the model)
FoldChar(c) ==
    IF (c >= 65 /\ c <= 90) \/ (c >= 192 /\ c <= 222 /\ c # 215) THEN c + 32 ELSE c

casefold(s) == [i \in 1..Len(s) |-> FoldChar(s[i])]

\* Python's < on str: lexicographic by code point
RECURSIVE StrLess(_, _)
StrLess(a, b) ==
    IF b = <<>> THEN FALSE
    ELSE IF a = <<>> THEN TRUE
    ELSE IF Head(a) # Head(b) THEN Head(a) < Head(b)
    ELSE StrLess(Tail(a), Tail(b))

RECURSIVE LStrip(_)
LStrip(s) == IF s # <<>> /\ IsSpace(Head(s)) THEN LStrip(Tail(s)) ELSE s

RECURSIVE RStrip(_)
RStrip(s) ==
    IF s # <<>> /\ IsSpace(s[Len(s)]) THEN RStrip(SubSeq(s, 1, Len(s) - 1)) ELSE s

\* str.strip()
strip(s) == RStrip(LStrip(s))

\* str.startswith
startswith(s, p) == Len(s) >= Len(p) /\ SubSeq(s, 1, Len(p)) = p

\* str(n) for an int
RECURSIVE NatToStr(_)
NatToStr(n) == IF n < 10 THEN <<Ch.zero + n>> ELSE NatToStr(n \div 10) \o <<Ch.zero + (n % 10)>>

IntToStr(n) == IF n < 0 THEN <<Ch.minus>> \o NatToStr(0 - n) ELSE NatToStr(n)

RECURSIVE DigitsToNat(_, _)
DigitsToNat(s, acc) ==
    IF s = <<>> THEN acc ELSE DigitsToNat(Tail(s), acc * 10 + (Head(s) - Ch.zero))

\* An optional value: dict.get(key) that may give None
None == [has |-> FALSE, s |-> <<>>]
Some(s) == [has |-> TRUE, s |-> s]

\* "x or ''" then str(): None and the empty string both give ""
OrEmpty(x) == IF x.has THEN x.s ELSE <<>>

\* int(str(x)) of a string: surrounding whitespace, an optional sign, decimal digits
IntParses(s) ==
    LET t == strip(s)
        d == IF t # <<>> /\ Head(t) \in {Ch.plus, Ch.minus} THEN Tail(t) ELSE t
    IN  d # <<>> /\ \A i \in 1..Len(d) : IsDigit(d[i])

IntValue(s) ==
    LET t == strip(s)
        neg == t # <<>> /\ Head(t) = Ch.minus
        d == IF t # <<>> /\ Head(t) \in {Ch.plus, Ch.minus} THEN Tail(t) ELSE t
    IN  IF neg THEN 0 - DigitsToNat(d, 0) ELSE DigitsToNat(d, 0)

\* _int(x, default): str(None) is "None", which int() rejects
_int(x, default) == IF x.has /\ IntParses(x.s) THEN IntValue(x.s) ELSE default

\* f"App {appid}"
sApp == <<65, 112, 112, 32>>
Placeholder(appid) == sApp \o IntToStr(appid)

-----------------------------------------------------------------------------
(* Python dicts: insertion-ordered sequences of entries *)

DictKeys(d) == {d[i].k : i \in 1..Len(d)}

DictHas(d, key) == \E i \in 1..Len(d) : d[i].k = key

DictIndex(d, key) == CHOOSE i \in 1..Len(d) : d[i].k = key

DictGet(d, key) == d[DictIndex(d, key)].v

\* a dict that moves a reassigned key to the end
DictSet_MoveToEnd(d, key, val) ==
    Append(SelectSeq(d, LAMBDA e : e.k # key), [k |-> key, v |-> val])

\* d[key] = val: an existing key keeps its position and takes the new value
DictSet(d, key, val) ==
    IF DictHas(d, key)
    THEN [d EXCEPT ![DictIndex(d, key)] = [k |-> key, v |-> val]]
    ELSE Append(d, [k |-> key, v |-> val])

-----------------------------------------------------------------------------
(* KeyValues tokenizer *)

LBRACE == [t |-> "lbrace", s |-> <<>>]
RBRACE == [t |-> "rbrace", s |-> <<>>]
StrTok(s) == [t |-> "str", s |-> s]

\* a generator that yields toks and then stops (err = FALSE) or raises ValueError
\* (err = TRUE, off = the offset the message reports)
Yields(toks) == [toks |-> toks, err |-> FALSE, off |-> 0]
Raises(toks, off) == [toks |-> toks, err |-> TRUE, off |-> off]

\* bytes(s, "utf-8")
RECURSIVE Utf8(_)
Utf8(s) ==
    IF s = <<>> THEN <<>>
    ELSE LET c == Head(s)
             b == IF c < 128 THEN <<c>>
                  ELSE IF c < 2048 THEN <<192 + (c \div 64), 128 + (c % 64)>>
                  ELSE <<224 + (c \div 4096), 128 + ((c \div 64) % 64), 128 + (c % 64)>>
         IN  b \o Utf8(Tail(s))

IsHex(c) == IsDigit(c) \/ (c >= 65 /\ c <= 70) \/ (c >= 97 /\ c <= 102)
HexVal(c) == IF IsDigit(c) THEN c - 48 ELSE IF c >= 97 THEN c - 87 ELSE c - 55
IsOct(c) == c >= 48 /\ c <= 55

RECURSIVE HexNum(_, _)
HexNum(ds, acc) == IF ds = <<>> THEN acc ELSE HexNum(Tail(ds), acc * 16 + HexVal(Head(ds)))

\* the single-character escapes of the unicode_escape codec
SimpleEscapes == {92, 39, 34, 97, 98, 102, 110, 114, 116, 118}
SimpleEscape(c) ==
    CASE c = 97 -> 7 [] c = 98 -> 8 [] c = 102 -> 12 [] c = 110 -> 10
      [] c = 114 -> 13 [] c = 116 -> 9 [] c = 118 -> 11 [] OTHER -> c

\* the length of the \x, \u, \U escape introduced by letter c, 0 for any other letter
HexEscapeLen(c) == CASE c = 120 -> 2 [] c = 117 -> 4 [] c = 85 -> 8 [] OTHER -> 0

\* bytes.decode("unicode_escape"): every byte is a Latin-1 character, except after \
RECURSIVE DecodeEscapes(_, _)
DecodeEscapes(b, out) ==
    IF b = <<>> THEN [ok |-> TRUE, s |-> out]
    ELSE IF Head(b) # Ch.backslash THEN DecodeEscapes(Tail(b), Append(out, Head(b)))
    ELSE IF Len(b) = 1 THEN [ok |-> FALSE, s |-> <<>>]
    ELSE LET c == b[2]
             rest == SubSeq(b, 3, Len(b))
         IN  IF c = Ch.nl THEN DecodeEscapes(rest, out)
             ELSE IF c \in SimpleEscapes THEN DecodeEscapes(rest, Append(out, SimpleEscape(c)))
             ELSE IF IsOct(c) THEN
                 LET n == IF Len(rest) >= 2 /\ IsOct(rest[1]) /\ IsOct(rest[2]) THEN 2
                          ELSE IF Len(rest) >= 1 /\ IsOct(rest[1]) THEN 1 ELSE 0
                     v == IF n = 2 THEN (c - 48) * 64 + (rest[1] - 48) * 8 + (rest[2] - 48)
                          ELSE IF n = 1 THEN (c - 48) * 8 + (rest[1] - 48) ELSE c - 48
                 IN  DecodeEscapes(SubSeq(rest, n + 1, Len(rest)), Append(out, v))
             ELSE IF HexEscapeLen(c) > 0 THEN
                 LET n == HexEscapeLen(c)
                     full == Len(rest) >= n /\ \A i \in 1..n : IsHex(rest[i])
                     v == HexNum(SubSeq(rest, 1, n), 0)
                 IN  IF full /\ v <= 1114111
                     THEN DecodeEscapes(SubSeq(rest, n + 1, Len(rest)), Append(out, v))
                     ELSE [ok |-> FALSE, s |-> <<>>]
             ELSE IF c = 78 THEN [ok |-> FALSE, s |-> <<>>]   \* \N without a known {name}
             ELSE DecodeEscapes(rest, out \o <<Ch.backslash, c>>)

\* _unescape(s); ok = FALSE when the codec raises UnicodeDecodeError
_unescape(s) == DecodeEscapes(Utf8(s), <<>>)

\* _QUOTED.match(txt, i).end() for text[i] = '"', or -1 when there is no match;
\* j runs over the offsets after the opening quote ('.' matches no newline)
RECURSIVE QuotedEnd(_, _)
QuotedEnd(txt, j) ==
    IF j >= Len(txt) THEN -1
    ELSE IF txt[j + 1] = Ch.quote THEN j + 1
    ELSE IF txt[j + 1] = Ch.backslash
         THEN IF j + 1 < Len(txt) /\ txt[j + 2] # Ch.nl THEN QuotedEnd(txt, j + 2) ELSE -1
    ELSE QuotedEnd(txt, j + 1)

\* text.find(c, i)
RECURSIVE Find(_, _, _)
Find(txt, c, i) ==
    IF i >= Len(txt) THEN -1 ELSE IF txt[i + 1] = c THEN i ELSE Find(txt, c, i + 1)

\* the end of the bareword that starts at offset j
RECURSIVE BarewordEnd(_, _)
BarewordEnd(txt, j) ==
    IF j < Len(txt) /\ ~IsSpace(txt[j + 1]) /\ txt[j + 1] \notin {Ch.lbrace, Ch.rbrace}
    THEN BarewordEnd(txt, j + 1) ELSE j

\* the while loop of tokenize_keyvalues from offset i (0-based), out = tokens yielded
RECURSIVE TokenizeLoop(_, _, _)
TokenizeLoop(txt, i, out) ==
    IF i >= Len(txt) THEN Yields(out)
    ELSE LET c == txt[i + 1]
         IN  IF IsSpace(c) THEN TokenizeLoop(txt, i + 1, out)
             ELSE IF c = Ch.slash /\ i + 1 < Len(txt) /\ txt[i + 2] = Ch.slash THEN
                 LET j == Find(txt, Ch.nl, i)
                 IN  IF j = -1 THEN Yields(out) ELSE TokenizeLoop(txt, j + 1, out)
             ELSE IF c = Ch.lbrace THEN TokenizeLoop(txt, i + 1, Append(out, LBRACE))
             ELSE IF c = Ch.rbrace THEN TokenizeLoop(txt, i + 1, Append(out, RBRACE))
             ELSE IF c = Ch.quote THEN
                 LET e == QuotedEnd(txt, i + 1)
                     u == _unescape(SubSeq(txt, i + 2, e - 1))
                 IN  IF e = -1 THEN Raises(out, i)
                     ELSE IF ~u.ok THEN Raises(out, -1)
                     ELSE TokenizeLoop(txt, e, Append(out, StrTok(u.s)))
             ELSE LET j == BarewordEnd(txt, i)
                  IN  TokenizeLoop(txt, j, Append(out, StrTok(SubSeq(txt, i + 1, j))))

tokenize_keyvalues(txt) == TokenizeLoop(txt, 0, <<>>)

-----------------------------------------------------------------------------
(* KeyValues parser *)

\* the values of a parsed block: a string or a nested dict
StrVal(s) == [t |-> "str", s |-> s, o |-> <<>>]
ObjVal(o) == [t |-> "obj", s |-> <<>>, o |-> o]

Returned(obj, pos) == [ok |-> TRUE, obj |-> obj, pos |-> pos, error |-> "none"]
Raised(pos, error) == [ok |-> FALSE, obj |-> <<>>, pos |-> pos, error |-> error]

\* a parser that takes the end of input after a key for the end of the block
RECURSIVE parse_object_EofAfterKey(_, _, _)
parse_object_EofAfterKey(g, pos, obj) ==
    IF pos > Len(g.toks)
    THEN IF g.err THEN Raised(pos, "tokenize") ELSE Returned(obj, pos)
    ELSE LET tok == g.toks[pos]
         IN  IF tok.t = "rbrace" THEN Returned(obj, pos + 1)
             ELSE IF tok.t = "lbrace" THEN Raised(pos, "lbrace")
             ELSE IF pos + 1 > Len(g.toks)
                  THEN IF g.err THEN Raised(pos + 1, "tokenize") ELSE Returned(obj, pos + 1)
             ELSE LET val == g.toks[pos + 1]
                  IN  IF val.t = "lbrace" THEN
                          LET sub == parse_object_EofAfterKey(g, pos + 2, <<>>)
                          IN  IF sub.ok
                              THEN parse_object_EofAfterKey(g, sub.pos,
                                       DictSet(obj, tok.s, ObjVal(sub.obj)))
                              ELSE sub
                      ELSE IF val.t = "rbrace" THEN Raised(pos + 1, "rbrace")
                      ELSE parse_object_EofAfterKey(g, pos + 2,
                               DictSet(obj, tok.s, StrVal(val.s)))

\* parse_object: the while loop from token pos on, obj = the dict built so far;
\* next(tokens) past the last token raises StopIteration, or the generator's error
RECURSIVE parse_object(_, _, _)
parse_object(g, pos, obj) ==
    IF pos > Len(g.toks)
    THEN IF g.err THEN Raised(pos, "tokenize") ELSE Returned(obj, pos)
    ELSE LET tok == g.toks[pos]
         IN  IF tok.t = "rbrace" THEN Returned(obj, pos + 1)
             ELSE IF tok.t = "lbrace" THEN Raised(pos, "lbrace")
             ELSE IF pos + 1 > Len(g.toks)
                  THEN IF g.err THEN Raised(pos + 1, "tokenize") ELSE Raised(pos + 1, "eof")
             ELSE LET val == g.toks[pos + 1]
                  IN  IF val.t = "lbrace" THEN
                          LET sub == parse_object(g, pos + 2, <<>>)
                          IN  IF sub.ok
                              THEN parse_object(g, sub.pos, DictSet(obj, tok.s, ObjVal(sub.obj)))
                              ELSE sub
                      ELSE IF val.t = "rbrace" THEN Raised(pos + 1, "rbrace")
                      ELSE parse_object(g, pos + 2, DictSet(obj, tok.s, StrVal(val.s)))

\* parse_keyvalues: root = parse_object()
parse_keyvalues(g) == parse_object(g, 1, <<>>)

-----------------------------------------------------------------------------
(* Game records and the local cover lookup *)

NoCover == [appid |-> 0, cand |-> 0]

\* the dataclass Game
Game(appid, name, inst, library_path, installdir, state_flags, size_on_disk, cover) ==
    [appid |-> appid, name |-> name, installed |-> inst, library_path |-> library_path,
     installdir |-> installdir, state_flags |-> state_flags,
     size_on_disk |-> size_on_disk, cover |-> cover]

\* the six candidate asset names, in the order they are tried
CoverCandidates == 1..6

\* the first candidate file that exists in the cache directory, "" if none
find_cover(cch, appid) ==
    IF \E c \in CoverCandidates : <<appid, c>> \in cch
    THEN [appid |-> appid,
          cand |-> CHOOSE c \in CoverCandidates :
                      /\ <<appid, c>> \in cch
                      /\ \A d \in CoverCandidates : <<appid, d>> \in cch => c <= d]
    ELSE NoCover

-----------------------------------------------------------------------------
(* Manifest extractor *)

\* the library folders handed to parse_installed_games, in order
Libs == <<"/lib1", "/lib2">>

\* a loop body that keeps the record of a manifest whose appid reads as 0
ParseManifest_KeepsZero(st, mf, cch) ==
    LET c == mf.content
        appid == _int(c.appstate.appid, 0)
        stripped == strip(OrEmpty(c.appstate.name))
        name == IF stripped # <<>> THEN stripped ELSE Placeholder(appid)
        g == Game(appid, name, TRUE, Libs[mf.lib],
                  strip(OrEmpty(c.appstate.installdir)),
                  _int(c.appstate.StateFlags, 0),
                  _int(c.appstate.SizeOnDisk, 0),
                  find_cover(cch, appid))
    IN  IF c.kv # "appstate" THEN st
        ELSE [games |-> DictSet(st.games, appid, Len(st.heap) + 1),
              heap |-> Append(st.heap, g)]

\* one loop body of parse_installed_games: st = [games, heap], mf = [lib, file, content]
ParseManifest(st, mf, cch) ==
    LET c == mf.content
        appid == _int(c.appstate.appid, 0)
        stripped == strip(OrEmpty(c.appstate.name))
        name == IF stripped # <<>> THEN stripped ELSE Placeholder(appid)
        g == Game(appid, name, TRUE, Libs[mf.lib],
                  strip(OrEmpty(c.appstate.installdir)),
                  _int(c.appstate.StateFlags, 0),
                  _int(c.appstate.SizeOnDisk, 0),
                  find_cover(cch, appid))
    IN  IF c.kv # "appstate" THEN st           \* load failed, or no AppState block
        ELSE IF appid = 0 THEN st
        ELSE [games |-> DictSet(st.games, appid, Len(st.heap) + 1),
              heap |-> Append(st.heap, g)]

\* a scan that a failed load brings to its end
RECURSIVE ParseLoop_StopsAtFailure(_, _, _)
ParseLoop_StopsAtFailure(st, files, cch) ==
    IF files = <<>> THEN st
    ELSE IF Head(files).content.kv # "appstate" THEN st
    ELSE ParseLoop_StopsAtFailure(ParseManifest(st, Head(files), cch), Tail(files), cch)

RECURSIVE ParseLoop(_, _, _)
ParseLoop(st, files, cch) ==
    IF files = <<>> THEN st
    ELSE ParseLoop(ParseManifest(st, Head(files), cch), Tail(files), cch)

\* parse_installed_games over the manifest files in the order the globs yield them
parse_installed_games(files, cch) ==
    ParseLoop([games |-> <<>>, heap |-> <<>>], files, cch)

-----------------------------------------------------------------------------
(* Owned games and the reconciler *)

\* fetch_owned_games_from_webapi: the loop over the games list of the response
RECURSIVE FetchLoop(_, _)
FetchLoop(out, lst) ==
    IF lst = <<>> THEN out
    ELSE LET g == Head(lst)
             appid == _int(Some(IntToStr(g.appid)), 0)
         IN  FetchLoop(IF appid = 0 THEN out ELSE DictSet(out, appid, g), Tail(lst))

fetch_owned_games_from_webapi(lst) == FetchLoop(<<>>, lst)

\* variants of the loop body, each with one plausible slip
\* no membership test: an owned app always gets a record of its own
MergeOwned_NoDedup(st, appid, og, cch) ==
    LET stripped == strip(OrEmpty(og.name))
        name == IF stripped # <<>> THEN stripped ELSE Placeholder(appid)
        g == Game(appid, name, FALSE, "", <<>>, 0, 0, find_cover(cch, appid))
    IN  [merged |-> Append(st.merged, [k |-> appid, v |-> Len(st.heap) + 1]),
         heap |-> Append(st.heap, g)]

\* the owned record replaces the installed one
MergeOwned_Replace(st, appid, og, cch) ==
    LET stripped == strip(OrEmpty(og.name))
        name == IF stripped # <<>> THEN stripped ELSE Placeholder(appid)
        g == Game(appid, name, FALSE, "", <<>>, 0, 0, find_cover(cch, appid))
    IN  [merged |-> DictSet(st.merged, appid, Len(st.heap) + 1),
         heap |-> Append(st.heap, g)]

\* no placeholder for a blank owned name
MergeOwned_NoPlaceholder(st, appid, og, cch) ==
    IF DictHas(st.merged, appid)
    THEN LET r == DictGet(st.merged, appid)
         IN  IF startswith(st.heap[r].name, sApp) /\ og.name.has
             THEN [st EXCEPT !.heap[r].name = og.name.s]
             ELSE st
    ELSE LET name == strip(OrEmpty(og.name))
             g == Game(appid, name, FALSE, "", <<>>, 0, 0, find_cover(cch, appid))
         IN  [merged |-> DictSet(st.merged, appid, Len(st.heap) + 1),
              heap |-> Append(st.heap, g)]

\* one iteration of the loop of merge_games over owned.items(): st = [merged, heap]
MergeOwned(st, appid, og, cch) ==
    IF DictHas(st.merged, appid)
    THEN LET r == DictGet(st.merged, appid)
         IN  IF startswith(st.heap[r].name, sApp) /\ og.name.has
             THEN [st EXCEPT !.heap[r].name = og.name.s]
             ELSE st
    ELSE LET stripped == strip(OrEmpty(og.name))
             name == IF stripped # <<>> THEN stripped ELSE Placeholder(appid)
             g == Game(appid, name, FALSE, "", <<>>, 0, 0, find_cover(cch, appid))
         IN  [merged |-> DictSet(st.merged, appid, Len(st.heap) + 1),
              heap |-> Append(st.heap, g)]

RECURSIVE MergeLoop(_, _, _)
MergeLoop(st, items, cch) ==
    IF items = <<>> THEN st
    ELSE MergeLoop(MergeOwned(st, Head(items).k, Head(items).v, cch), Tail(items), cch)

\* the sort key of merge_games: g.name.casefold()
SortKey(hp, r) == casefold(hp[r].name)

\* insert ref r into the sorted list after every element whose key is not greater
RECURSIVE InsertByKey(_, _, _)
InsertByKey(lst, r, hp) ==
    IF lst = <<>> THEN <<r>>
    ELSE IF StrLess(SortKey(hp, r), SortKey(hp, Head(lst))) THEN <<r>> \o lst
    ELSE <<Head(lst)>> \o InsertByKey(Tail(lst), r, hp)

\* sorted(refs, key=...): Python's sort is stable
RECURSIVE SortLoop(_, _, _)
SortLoop(done, rest, hp) ==
    IF rest = <<>> THEN done
    ELSE SortLoop(InsertByKey(done, Head(rest), hp), Tail(rest), hp)

sorted(refs, hp) == SortLoop(<<>>, refs, hp)

\* merge_games: merged = dict(installed) copies the dict, not the Game objects
merge_games(inst, own, hp, cch) ==
    LET st == MergeLoop([merged |-> inst, heap |-> hp], own, cch)
        values == [i \in 1..Len(st.merged) |-> st.merged[i].v]
    IN  [list |-> sorted(values, st.heap), heap |-> st.heap]

\* the "games" array write_json serialises
Payload(list, hp) == [i \in 1..Len(list) |-> hp[list[i]]]

-----------------------------------------------------------------------------
(* What is on disk and what the Web API reports *)

s_ab == <<97, 98>>
s_AB == <<65, 66>>
s_AppX == sApp \o <<88>>
s_Q == <<81>>
s_spZ == <<32, 90>>
s_blank == <<32>>

\* what load_keyvalues_file and kv.get("AppState") give for a manifest file: kv tells
\* whether the load failed, and how; size is len(appstate); a field is None when the
\* key is absent
Fields(appid, name, installdir, StateFlags, SizeOnDisk, bd, btd, bts) ==
    [appid |-> appid, name |-> name, installdir |-> installdir,
     StateFlags |-> StateFlags, SizeOnDisk |-> SizeOnDisk,
     BytesDownloaded |-> bd, BytesToDownload |-> btd, BytesToStage |-> bts]

NoFields == Fields(None, None, None, None, None, None, None, None)

AppState(appid, name) ==
    [kv |-> "appstate",
     size |-> IF name.has THEN 5 ELSE 4,
     appstate |-> Fields(Some(appid), name, Some(<<100>>), Some(<<52>>), Some(<<55>>),
                         None, None, None)]

NoFile == [kv |-> "nofile", size |-> 0, appstate |-> NoFields]

ManifestPool ==
    { AppState(<<49>>, None), AppState(<<49>>, Some(s_ab)),
      AppState(<<50>>, Some(s_AB)), AppState(<<50>>, Some(s_AppX)) }

\* a manifest file is appmanifest_<file>.acf in steamapps/ of library <lib>
Slots == {[lib |-> 1, file |-> 1], [lib |-> 1, file |-> 2], [lib |-> 2, file |-> 1]}

Disks ==
    { d \in [Slots -> ManifestPool \cup {NoFile}] :
          Cardinality({sl \in Slots : d[sl] # NoFile}) <= MaxFiles }

Owned(appid, name) == [appid |-> appid, name |-> name]

OwnedPool ==
    { Owned(1, Some(s_Q)), Owned(1, None), Owned(1, Some(s_blank)), Owned(2, Some(s_Q)),
      Owned(3, Some(s_AB)), Owned(3, Some(s_blank)), Owned(3, None), Owned(3, Some(s_spZ)) }

Responses ==
    { r \in SUBSET OwnedPool :
          /\ Cardinality(r) <= MaxOwned
          /\ \A a, b \in r : a.appid = b.appid => a = b }

Caches == { {}, {<<1, 2>>, <<1, 5>>, <<3, 1>>} }

\* all the orders in which the elements of a set can be listed
Perms(S) ==
    { f \in [1..Cardinality(S) -> S] : \A i, j \in 1..Cardinality(S) : f[i] = f[j] => i = j }

\* the manifest files of library l, in one of the orders glob may yield them
GlobOrders(disk, l) ==
    LET present == {sl \in Slots : sl.lib = l /\ disk[sl] # NoFile}
    IN  { [i \in 1..Len(p) |-> [lib |-> l, file |-> p[i].file, content |-> disk[p[i]]]] :
            p \in Perms(present) }

-----------------------------------------------------------------------------
(* One run of main after another, over the same disk contents *)

\* no KeyValues file is being loaded
KVIdle ==
    /\ doc = <<>>
    /\ text = <<>>
    /\ stream = Yields(<<>>)
    /\ result = Returned(<<>>, 1)
    /\ kvpc = "idle"

LocIdle ==
    /\ env = None
    /\ fsys = [resolve |-> <<>>, apps |-> <<>>]
    /\ vdf = [kind |-> "missing", stream |-> Yields(<<>>)]
    /\ root = None
    /\ libs = <<>>
    /\ locpc = "idle"

DlIdle ==
    /\ downloads = <<>>
    /\ dlpc = "idle"

NoStatus == [exists |-> FALSE]

\* the Proton-GE updater is not run
GeIdle ==
    /\ ge_cfg = [notify |-> FALSE, auto_install |-> FALSE, keep |-> 0]
    /\ ge_release = 1
    /\ ge_dirs = {}
    /\ ge_out = NoStatus
    /\ ge_notes = <<>>
    /\ ge_passes = <<>>

\* --out, and the temporary file of a write with the path made equal to out_path
OutPath == "library.json"

with_suffix_tmp_InPlace(path) == path

\* out_path.with_suffix(out_path.suffix + ".tmp"), path + ".tmp"
with_suffix_tmp(path) == <<path, ".tmp">>

Names == {OutPath, with_suffix_tmp(OutPath)}

NoFd == [inode |-> 0, pos |-> 0, id |-> <<0, 0>>]

\* what a read of the out path gives: nothing yet, no such file, or the file's content
Unread == [kind |-> "unread", content |-> <<>>]
ReadNoFile == [kind |-> "nofile", content |-> <<>>]
ReadFile(content) == [kind |-> "file", content |-> content]

\* no writer script runs and nobody reads
WrIdle ==
    /\ wr_procs = {}
    /\ wr_dir = [n \in Names |-> 0]
    /\ wr_inodes = <<>>
    /\ wr_pc = <<>>
    /\ wr_fd = <<>>
    /\ wr_count = 0
    /\ wr_published = <<>>
    /\ rd_fd = 0 - 1
    /\ rd_seen = Unread

Absent == [mtime |-> 0, version |-> 0]

\* no script runs with --watch
WtIdle ==
    /\ wt_script = "none"
    /\ wt_listed = {}
    /\ wt_disk = [sl \in Slots |-> Absent]
    /\ wt_clock = 0
    /\ wt_libs = {}
    /\ wt_last_mtime = 0
    /\ wt_snapshot = [sl \in Slots |-> 0]
    /\ wt_pc = "idle"

ExtIdle == GeIdle /\ WrIdle /\ WtIdle

Init ==
    /\ KVIdle
    /\ ExtIdle
    /\ LocIdle
    /\ DlIdle
    /\ manifests \in Disks
    /\ cache \in Caches
    /\ response \in Responses
    /\ heap = <<>>
    /\ installed = <<>>
    /\ owned = <<>>
    /\ games = <<>>
    /\ snapshot = <<>>
    /\ runs = 0
    /\ pc = "start"

\* installed = parse_installed_games(steam_root, libs)
ParseInstalled ==
    /\ pc = "start"
    /\ \E o1 \in GlobOrders(manifests, 1), o2 \in GlobOrders(manifests, 2) :
          LET st == parse_installed_games(o1 \o o2, cache)
          IN  /\ installed' = st.games
              /\ heap' = st.heap
    /\ pc' = "parsed"
    /\ UNCHANGED <<manifests, cache, response, owned, games, snapshot, runs>>
    /\ UNCHANGED <<kvvars, locvars, dlvars, extvars>>

\* owned = fetch_owned_games_from_webapi(...); an empty response also stands for
\* no API key and for a failed request, which leave owned = {}
FetchOwned ==
    /\ pc = "parsed"
    /\ \E lst \in Perms(response) : owned' = fetch_owned_games_from_webapi(lst)
    /\ pc' = "fetched"
    /\ UNCHANGED <<manifests, cache, response, heap, installed, games, snapshot, runs>>
    /\ UNCHANGED <<kvvars, locvars, dlvars, extvars>>

\* games = merge_games(installed, owned, steam_root)
MergeGames ==
    /\ pc = "fetched"
    /\ LET res == merge_games(installed, owned, heap, cache)
       IN  /\ games' = res.list
           /\ heap' = res.heap
    /\ pc' = "merged"
    /\ UNCHANGED <<manifests, cache, response, installed, owned, snapshot, runs>>
    /\ UNCHANGED <<kvvars, locvars, dlvars, extvars>>

\* write_json(out_path, steam_root, games)
WriteJson ==
    /\ pc = "merged"
    /\ snapshot' = Payload(games, heap)
    /\ runs' = runs + 1
    /\ pc' = "written"
    /\ UNCHANGED <<manifests, cache, response, heap, installed, owned, games>>
    /\ UNCHANGED <<kvvars, locvars, dlvars, extvars>>

\* the script is started again
Rerun ==
    /\ pc = "written"
    /\ runs < MaxRuns
    /\ heap' = <<>>
    /\ installed' = <<>>
    /\ owned' = <<>>
    /\ games' = <<>>
    /\ pc' = "start"
    /\ UNCHANGED <<manifests, cache, response, snapshot, runs>>
    /\ UNCHANGED <<kvvars, locvars, dlvars, extvars>>

Next == ParseInstalled \/ FetchOwned \/ MergeGames \/ WriteJson \/ Rerun

Spec == Init /\ [][Next]_vars

-----------------------------------------------------------------------------
(* parse_keyvalues over a token stream, and load_keyvalues_file over a text *)

\* no run of main is under way
LibIdle ==
    /\ manifests = [sl \in Slots |-> NoFile]
    /\ cache = {}
    /\ response = {}
    /\ heap = <<>>
    /\ installed = <<>>
    /\ owned = <<>>
    /\ games = <<>>
    /\ snapshot = <<>>
    /\ runs = 0
    /\ pc = "idle"

\* the strings of the token streams
s_k1 == <<107>>
s_k2 == <<118>>

TokenPool == {LBRACE, RBRACE, StrTok(s_k1), StrTok(s_k2)}

TokenSeqs == UNION { [1..n -> TokenPool] : n \in 0..MaxToks }

\* tokenize_keyvalues(data): the generator, run to its end
Tokenize ==
    /\ kvpc = "text"
    /\ stream' = tokenize_keyvalues(text)
    /\ kvpc' = "tokens"
    /\ UNCHANGED <<doc, text, result>>
    /\ UNCHANGED <<libvars, locvars, dlvars, extvars>>

\* parse_keyvalues(tokens)
ParseKeyvalues ==
    /\ kvpc = "tokens"
    /\ result' = parse_keyvalues(stream)
    /\ kvpc' = "done"
    /\ UNCHANGED <<doc, text, stream>>
    /\ UNCHANGED <<libvars, locvars, dlvars, extvars>>

InitParse ==
    /\ LibIdle
    /\ ExtIdle
    /\ LocIdle
    /\ DlIdle
    /\ doc = <<>>
    /\ text = <<>>
    /\ stream \in {Yields(toks) : toks \in TokenSeqs}
    /\ result = Returned(<<>>, 1)
    /\ kvpc = "tokens"

NextParse == ParseKeyvalues

SpecParse == InitParse /\ [][NextParse]_vars

-----------------------------------------------------------------------------
(* Properties of the reconciler *)

Both == DictKeys(installed) \cap DictKeys(owned)
OwnedOnly == DictKeys(owned) \ DictKeys(installed)

\* the positions of the returned list that hold a record of app_id a
Positions(lst, hp, a) == {i \in 1..Len(lst) : hp[lst[i]].appid = a}

\* the record of app_id a in a returned list
RecordOf(lst, hp, a) == hp[lst[CHOOSE i \in Positions(lst, hp, a) : TRUE]]

MergeStep == pc = "fetched" /\ pc' = "merged"

\* C1: merge_games returns the records ordered by case-folded name ascending, and
\* records whose names are equal ignoring case appear in ascending app_id order.
C1_OrderedByNameThenAppId ==
    pc = "merged" =>
        \A i, j \in 1..Len(games) :
            i < j =>
                LET a == heap[games[i]]
                    b == heap[games[j]]
                IN  /\ ~StrLess(casefold(b.name), casefold(a.name))
                    /\ casefold(a.name) = casefold(b.name) => a.appid < b.appid

\* C2: the list returned by merge_games holds exactly one record for every app_id
\* of keys(installed) union keys(owned) and no other record; for inputs sharing no
\* app_id its length is |installed| + |owned|.
C2_OneRecordPerAppId ==
    pc = "merged" =>
        /\ \A a \in DictKeys(installed) \cup DictKeys(owned) :
               Cardinality(Positions(games, heap, a)) = 1
        /\ \A i \in 1..Len(games) :
               heap[games[i]].appid \in DictKeys(installed) \cup DictKeys(owned)
        /\ Both = {} => Len(games) = Len(installed) + Len(owned)

\* an app in both maps, an app only installed and an app only owned were merged
C2_Witness ==
    /\ pc = "merged"
    /\ Both # {}
    /\ OwnedOnly # {}
    /\ DictKeys(installed) \ DictKeys(owned) # {}
    /\ Len(games) = 3

\* C3: for an app_id in both maps the merged name is the owned name if the installed
\* name is exactly the placeholder "App <app_id>", and otherwise the installed name is
\* kept: a real name that merely begins with "App " is never overwritten.
C3_OnlyPlaceholderReplaced ==
    [][MergeStep =>
        \A a \in Both :
            LET before == heap[DictGet(installed, a)].name
                after == RecordOf(games', heap', a).name
                og == DictGet(owned, a)
            IN  IF before = Placeholder(a)
                THEN og.name.has => after = og.name.s
                ELSE after = before]_vars

\* C4: for an app_id in both maps the merged record has installed = true and the
\* library_path, installdir, state_flags, size_on_disk and cover of the installed record.
C4_InstalledFieldsKept ==
    [][MergeStep =>
        \A a \in Both :
            LET before == heap[DictGet(installed, a)]
                after == RecordOf(games', heap', a)
            IN  /\ after.installed = TRUE
                /\ after.library_path = before.library_path
                /\ after.installdir = before.installdir
                /\ after.state_flags = before.state_flags
                /\ after.size_on_disk = before.size_on_disk
                /\ after.cover = before.cover]_vars

\* an installed app with a cover took its name from the owned record
C4_Witness ==
    /\ pc = "merged"
    /\ \E a \in Both :
          LET g == RecordOf(games, heap, a)
              og == DictGet(owned, a)
          IN  /\ og.name.has
              /\ g.name = og.name.s
              /\ g.library_path # ""
              /\ g.size_on_disk # 0
              /\ g.cover # NoCover

\* the fields of a record synthesized for an app that is owned and not installed
C5_Synthesized(g) ==
    /\ g.installed = FALSE
    /\ g.library_path = ""
    /\ g.installdir = <<>>
    /\ g.state_flags = 0
    /\ g.size_on_disk = 0

\* C5 as stated: the synthesized record's name is the owned record's name, or the
\* placeholder when the owned record has no name or a blank one.
C5_NameIsOwnedName ==
    pc = "merged" =>
        \A a \in OwnedOnly :
            LET g == RecordOf(games, heap, a)
                og == DictGet(owned, a)
            IN  /\ C5_Synthesized(g)
                /\ g.name = IF og.name.has /\ strip(og.name.s) # <<>>
                            THEN og.name.s ELSE Placeholder(a)

\* C5 amended: for every owned app_id absent from installed the merged list holds a
\* synthesized record with installed = false, library_path = "", installdir = "",
\* state_flags = 0 and size_on_disk = 0, whose name is the owned record's name with
\* its leading and trailing whitespace removed, or the placeholder "App <app_id>"
\* when the owned record has no name or a blank one.
C5_NameIsStrippedOwnedName ==
    pc = "merged" =>
        \A a \in OwnedOnly :
            LET g == RecordOf(games, heap, a)
                og == DictGet(owned, a)
            IN  /\ Positions(games, heap, a) # {}
                /\ C5_Synthesized(g)
                /\ g.name = IF og.name.has /\ strip(og.name.s) # <<>>
                            THEN strip(og.name.s) ELSE Placeholder(a)

\* an owned-only app whose name has surrounding whitespace was merged
C5_Witness ==
    /\ pc = "merged"
    /\ \E a \in OwnedOnly :
          LET og == DictGet(owned, a)
          IN  /\ og.name.has
              /\ strip(og.name.s) # <<>>
              /\ strip(og.name.s) # og.name.s
              /\ RecordOf(games, heap, a).name = strip(og.name.s)

\* C6: the catalog produced from the same manifest files and the same owned set is
\* the same whatever order the file system enumerates the manifest files in and
\* whatever order the entries went into the maps: a later run over the unchanged
\* disk and response writes the snapshot the earlier run wrote.
C6_SameCatalogEveryRun ==
    [][(pc = "merged" /\ pc' = "written" /\ runs >= 1) => snapshot' = snapshot]_vars

\* C7: merge_games is pure: after the call every Game held in the installed map has
\* the field values it had before, and both maps have the keys they had before.
C7_ArgumentsUnchanged ==
    [][MergeStep =>
        /\ \A i \in 1..Len(installed) : heap'[installed[i].v] = heap[installed[i].v]
        /\ DictKeys(installed') = DictKeys(installed)
        /\ DictKeys(owned') = DictKeys(owned)]_vars

-----------------------------------------------------------------------------
(* Documents written by the grammar of the format, and their text *)

s_empty == <<>>
s_specials == <<97, 32, 34, 92>>
s_comment == <<47, 47, 123, 10>>
s_eacute == <<233>>

DocKeys == {s_k1, s_k2}
DocStrings == {s_k2, s_empty, s_specials, s_comment, s_eacute}

\* nested blocks: empty or holding one pair
DocBlocks == {<<>>} \cup {<<[k |-> k, v |-> StrVal(v)]>> : k \in DocKeys, v \in {s_k2, s_eacute}}

DocPairs ==
    {[k |-> k, v |-> v] :
        k \in DocKeys, v \in {StrVal(x) : x \in DocStrings} \cup {ObjVal(b) : b \in DocBlocks}}

Docs == UNION { [1..n -> DocPairs] : n \in 0..MaxPairs }

\* how a writer lays a document out: strings bare where the format allows it or
\* always quoted, and what it puts between two tokens
Styles ==
    {st \in [bare : BOOLEAN, sep : {<<32>>, <<10>>, <<9, 47, 47, 99, 10>>, <<>>}] :
        st.bare => st.sep # <<>>}

RECURSIVE Escape(_)
Escape(s) ==
    IF s = <<>> THEN <<>>
    ELSE (CASE Head(s) = Ch.quote -> <<Ch.backslash, Ch.quote>>
            [] Head(s) = Ch.backslash -> <<Ch.backslash, Ch.backslash>>
            [] Head(s) = Ch.nl -> <<Ch.backslash, 110>>
            [] OTHER -> <<Head(s)>>) \o Escape(Tail(s))

\* a string that can be written without quotes
BareOK(s) ==
    /\ s # <<>>
    /\ \A i \in 1..Len(s) :
          ~IsSpace(s[i]) /\ s[i] \notin {Ch.quote, Ch.backslash, Ch.slash, Ch.lbrace, Ch.rbrace}

RenderStr(s, st) ==
    IF st.bare /\ BareOK(s) THEN s ELSE <<Ch.quote>> \o Escape(s) \o <<Ch.quote>>

RECURSIVE RenderBody(_, _)
RenderBody(es, st) ==
    IF es = <<>> THEN <<>>
    ELSE LET e == Head(es)
             v == IF e.v.t = "str" THEN RenderStr(e.v.s, st)
                  ELSE <<Ch.lbrace>> \o st.sep \o RenderBody(e.v.o, st) \o <<Ch.rbrace>>
         IN  RenderStr(e.k, st) \o st.sep \o v \o st.sep \o RenderBody(Tail(es), st)

InitLoad ==
    /\ LibIdle
    /\ ExtIdle
    /\ LocIdle
    /\ DlIdle
    /\ doc \in Docs
    /\ text \in {RenderBody(doc, st) : st \in Styles}
    /\ stream = Yields(<<>>)
    /\ result = Returned(<<>>, 1)
    /\ kvpc = "text"

NextLoad == Tokenize \/ ParseKeyvalues

\* load_keyvalues_file over the text of a well-formed document
SpecLoad == InitLoad /\ [][NextLoad]_vars

\* the characters of the raw texts: " \ / newline } a x
TextChars == {Ch.quote, Ch.backslash, Ch.slash, Ch.nl, Ch.rbrace, 97, 120}

Texts == UNION { [1..n -> TextChars] : n \in 0..MaxLen }

InitText ==
    /\ LibIdle
    /\ ExtIdle
    /\ LocIdle
    /\ DlIdle
    /\ doc = <<>>
    /\ text \in Texts
    /\ stream = Yields(<<>>)
    /\ result = Returned(<<>>, 1)
    /\ kvpc = "text"

NextText == Tokenize \/ ParseKeyvalues

\* load_keyvalues_file over every text of up to MaxLen characters
SpecText == InitText /\ [][NextText]_vars

-----------------------------------------------------------------------------
(* Properties of the parser *)

\* the index of the CloseBlock matching an OpenBlock whose body starts at i, 0 if none
RECURSIVE CloseOf(_, _, _)
CloseOf(toks, i, depth) ==
    IF i > Len(toks) THEN 0
    ELSE IF toks[i].t = "rbrace"
         THEN IF depth = 0 THEN i ELSE CloseOf(toks, i + 1, depth - 1)
    ELSE IF toks[i].t = "lbrace" THEN CloseOf(toks, i + 1, depth + 1)
    ELSE CloseOf(toks, i + 1, depth)

\* tokens lo..hi are a block body of the grammar: (key value)*, value a string or a block
RECURSIVE WellFormedBody(_, _, _)
WellFormedBody(toks, lo, hi) ==
    IF lo > hi THEN TRUE
    ELSE /\ toks[lo].t = "str"
         /\ lo + 1 <= hi
         /\ IF toks[lo + 1].t = "str" THEN WellFormedBody(toks, lo + 2, hi)
            ELSE /\ toks[lo + 1].t = "lbrace"
                 /\ LET c == CloseOf(toks, lo + 2, 0)
                    IN  /\ c # 0
                        /\ c <= hi
                        /\ WellFormedBody(toks, lo + 2, c - 1)
                        /\ WellFormedBody(toks, c + 1, hi)

\* the key/value pairs written in tokens lo..hi of a well-formed stream, every
\* occurrence kept, in source order
RECURSIVE Written(_, _, _)
Written(toks, lo, hi) ==
    IF lo > hi THEN <<>>
    ELSE IF toks[lo + 1].t = "str"
         THEN <<[k |-> toks[lo].s, v |-> StrVal(toks[lo + 1].s)]>> \o Written(toks, lo + 2, hi)
    ELSE LET c == CloseOf(toks, lo + 2, 0)
         IN  <<[k |-> toks[lo].s, v |-> ObjVal(Written(toks, lo + 2, c - 1))]>>
                 \o Written(toks, c + 1, hi)

Occurrences(es, key) == {i \in 1..Len(es) : es[i].k = key}
FirstOcc(es, key) == CHOOSE i \in Occurrences(es, key) : \A j \in Occurrences(es, key) : i <= j
LastOcc(es, key) == CHOOSE i \in Occurrences(es, key) : \A j \in Occurrences(es, key) : j <= i

\* the block a list of written pairs denotes: one entry per key, at the place of the
\* key's first occurrence, with the value of its last occurrence
RECURSIVE Denoted(_)
Denoted(es) ==
    LET firsts == {i \in 1..Len(es) : FirstOcc(es, es[i].k) = i}
        nth(n) == CHOOSE i \in firsts : Cardinality({j \in firsts : j < i}) = n - 1
        val(v) == IF v.t = "obj" THEN ObjVal(Denoted(v.o)) ELSE v
    IN  [n \in 1..Cardinality(firsts) |->
            [k |-> es[nth(n)].k, v |-> val(es[LastOcc(es, es[nth(n)].k)].v)]]

\* the duplicate-key rule for one block and, recursively, for the nested blocks kept
RECURSIVE DuplicateRule(_, _)
DuplicateRule(es, obj) ==
    /\ \A key \in {es[i].k : i \in 1..Len(es)} :
          Cardinality(Occurrences(es, key)) > 1 =>
              /\ Cardinality(Occurrences(obj, key)) = 1
              /\ LET e == obj[FirstOcc(obj, key)]
                     last == es[LastOcc(es, key)].v
                 IN  /\ e.v = IF last.t = "obj" THEN ObjVal(Denoted(last.o)) ELSE last
                     /\ FirstOcc(obj, key) =
                            1 + Cardinality({k2 \in {es[i].k : i \in 1..Len(es)} :
                                                FirstOcc(es, k2) < FirstOcc(es, key)})
    /\ \A i \in 1..Len(obj) :
          (obj[i].v.t = "obj" /\ Occurrences(es, obj[i].k) # {}
              /\ es[LastOcc(es, obj[i].k)].v.t = "obj")
          => DuplicateRule(es[LastOcc(es, obj[i].k)].v.o, obj[i].v.o)

\* some block written in es, at any depth, repeats a key
RECURSIVE HasDuplicate(_)
HasDuplicate(es) ==
    \/ \E i, j \in 1..Len(es) : i < j /\ es[i].k = es[j].k
    \/ \E i \in 1..Len(es) : es[i].v.t = "obj" /\ HasDuplicate(es[i].v.o)

StreamWellFormed == WellFormedBody(stream.toks, 1, Len(stream.toks))
StreamWritten == Written(stream.toks, 1, Len(stream.toks))

\* C8: when a key occurs more than once in the same block, the parsed block holds a
\* single entry for it, whose value (string or nested block) is that of the last
\* occurrence and whose position in iteration order is that of the first occurrence.
C8_DuplicateKeyLastValueFirstPlace ==
    (kvpc = "done" /\ ~stream.err /\ StreamWellFormed /\ HasDuplicate(StreamWritten)) =>
        /\ result.ok
        /\ DuplicateRule(StreamWritten, result.obj)

\* x a, y b, x c was parsed: x comes first and holds c
C8_Witness ==
    /\ kvpc = "done"
    /\ StreamWellFormed
    /\ Len(StreamWritten) = 3
    /\ StreamWritten[1].k = StreamWritten[3].k
    /\ StreamWritten[2].k # StreamWritten[1].k
    /\ StreamWritten[1].v # StreamWritten[3].v
    /\ result.ok
    /\ Len(result.obj) = 2
    /\ result.obj[1] = [k |-> StreamWritten[1].k, v |-> StreamWritten[3].v]

\* reading toks from index i at nesting depth, a key or a value being expected: an
\* OpenBlock stands where a key is expected, or a key is followed by a CloseBlock or
\* by the end of the stream (the reading ends at a CloseBlock that closes no block)
RECURSIVE Misplaced(_, _, _, _)
Misplaced(toks, i, depth, expectKey) ==
    IF i > Len(toks) THEN ~expectKey
    ELSE IF expectKey
         THEN CASE toks[i].t = "lbrace" -> TRUE
                [] toks[i].t = "rbrace" ->
                       IF depth = 0 THEN FALSE ELSE Misplaced(toks, i + 1, depth - 1, TRUE)
                [] OTHER -> Misplaced(toks, i + 1, depth, FALSE)
    ELSE CASE toks[i].t = "rbrace" -> TRUE
           [] toks[i].t = "lbrace" -> Misplaced(toks, i + 1, depth + 1, TRUE)
           [] OTHER -> Misplaced(toks, i + 1, depth, TRUE)

\* C10: parse_keyvalues fails with an error and returns no tree whenever an OpenBlock
\* stands where a key is expected (at any depth, also as the very first token) or a
\* key is immediately followed by a CloseBlock or by the end of the token stream.
C10_MisplacedTokenFails ==
    (kvpc = "done" /\ Misplaced(stream.toks, 1, 0, TRUE)) =>
        /\ ~result.ok
        /\ result.obj = <<>>
        /\ result.error \in {"lbrace", "rbrace", "eof"}

\* inside a nested block, after a complete pair, a key was followed by the end of input
C10_Witness ==
    /\ kvpc = "done"
    /\ Len(stream.toks) = 5
    /\ stream.toks[2].t = "lbrace"
    /\ \A i \in {1, 3, 4, 5} : stream.toks[i].t = "str"
    /\ ~result.ok
    /\ result.error = "eof"

\* C9: for every well-formed document (key/value pairs whose values are strings or
\* brace-delimited nested blocks, no braces around the root), tokenizing then parsing
\* yields the tree with exactly those keys, string values and nesting, in source
\* order and last-duplicate-wins.
C9_WellFormedDocumentRoundTrip ==
    kvpc = "done" => (result.ok /\ result.obj = Denoted(doc))

\* the index of the first CloseBlock of toks, read from index i at nesting depth,
\* that closes no block (0 when every CloseBlock closes one)
RECURSIVE StrayClose(_, _, _)
StrayClose(toks, i, depth) ==
    IF i > Len(toks) THEN 0
    ELSE CASE toks[i].t = "lbrace" -> StrayClose(toks, i + 1, depth + 1)
           [] toks[i].t = "rbrace" ->
                  IF depth = 0 THEN i ELSE StrayClose(toks, i + 1, depth - 1)
           [] OTHER -> StrayClose(toks, i + 1, depth)

\* C11: parse_keyvalues never returns successfully while tokens remain unconsumed: a
\* CloseBlock at top level is a fatal error, so the pairs after a stray CloseBlock are
\* never silently dropped.
C11_StrayCloseIsFatal ==
    (kvpc = "done" /\ result.ok) =>
        /\ result.pos = Len(stream.toks) + 1
        /\ StrayClose(stream.toks, 1, 0) = 0

\* the number of blocks still open where toks, read from index i at depth, ends
RECURSIVE OpenAtEnd(_, _, _)
OpenAtEnd(toks, i, depth) ==
    IF i > Len(toks) THEN depth
    ELSE CASE toks[i].t = "lbrace" -> OpenAtEnd(toks, i + 1, depth + 1)
           [] toks[i].t = "rbrace" ->
                  OpenAtEnd(toks, i + 1, IF depth = 0 THEN 0 ELSE depth - 1)
           [] OTHER -> OpenAtEnd(toks, i + 1, depth)

\* C12: the end of the stream is accepted as normal termination only by the top-level
\* call: when the stream ends while a nested block is still open, parsing fails with
\* an unexpected-end-of-input error instead of returning a tree.
C12_EndInsideBlockFails ==
    (/\ kvpc = "done"
     /\ ~stream.err
     /\ StrayClose(stream.toks, 1, 0) = 0
     /\ OpenAtEnd(stream.toks, 1, 0) > 0) => ~result.ok

\* the positions (1-based) of txt that lie between a // outside a quoted string and
\* the next newline or the end of the text, read from position i; inq = inside a
\* quoted string, which a " opens and the next " not escaped by a backslash closes
RECURSIVE CommentPositions(_, _, _)
CommentPositions(txt, i, inq) ==
    IF i > Len(txt) THEN {}
    ELSE IF inq
         THEN IF txt[i] = Ch.backslash THEN CommentPositions(txt, i + 2, TRUE)
              ELSE CommentPositions(txt, i + 1, txt[i] # Ch.quote)
    ELSE IF txt[i] = Ch.quote THEN CommentPositions(txt, i + 1, TRUE)
    ELSE IF txt[i] = Ch.slash /\ i < Len(txt) /\ txt[i + 1] = Ch.slash
         THEN LET nls == {j \in (i + 2)..Len(txt) : txt[j] = Ch.nl}
                  e == IF nls = {} THEN Len(txt) + 1
                       ELSE CHOOSE j \in nls : \A k \in nls : j <= k
              IN  ((i + 2)..(e - 1)) \cup CommentPositions(txt, e + 1, FALSE)
    ELSE CommentPositions(txt, i + 1, FALSE)

\* the character c is in the text, and only inside comments
OnlyInComments(txt, c) ==
    LET at == {p \in 1..Len(txt) : txt[p] = c}
    IN  at # {} /\ at \subseteq CommentPositions(txt, 1, FALSE)

\* C13: no character that lies between a // outside a quoted string and the next
\* newline (or the end of the input) ever appears in an emitted token, wherever the //
\* starts: at a token boundary or directly after bareword characters (abc//note).
C13_CommentTextInNoToken ==
    kvpc # "text" =>
        \A c \in TextChars \ {Ch.slash, Ch.nl} :
            OnlyInComments(text, c) =>
                \A k \in 1..Len(stream.toks) :
                    \A p \in 1..Len(stream.toks[k].s) : stream.toks[k].s[p] # c

\* the offset just past the next " of txt at or after offset j that no backslash
\* escapes (-1 when there is none)
RECURSIVE ClosingQuote(_, _)
ClosingQuote(txt, j) ==
    IF j >= Len(txt) THEN -1
    ELSE IF txt[j + 1] = Ch.quote THEN j + 1
    ELSE IF txt[j + 1] = Ch.backslash THEN ClosingQuote(txt, j + 2)
    ELSE ClosingQuote(txt, j + 1)

\* the offset of the first " of txt, read from offset i, that begins a token and has
\* no later unescaped closing " (-1 when there is none): whitespace and comments are
\* skipped, a brace is a token, a " begins a quoted string, any other run of
\* non-whitespace, non-brace characters is a bareword
RECURSIVE UnterminatedQuote(_, _)
UnterminatedQuote(txt, i) ==
    IF i >= Len(txt) THEN -1
    ELSE LET c == txt[i + 1]
         IN  IF IsSpace(c) \/ c \in {Ch.lbrace, Ch.rbrace} THEN UnterminatedQuote(txt, i + 1)
             ELSE IF c = Ch.slash /\ i + 1 < Len(txt) /\ txt[i + 2] = Ch.slash
                  THEN LET nls == {j \in (i + 1)..Len(txt) : txt[j] = Ch.nl}
                       IN  IF nls = {} THEN -1
                           ELSE UnterminatedQuote(txt, CHOOSE j \in nls : \A k \in nls : j <= k)
             ELSE IF c = Ch.quote
                  THEN IF ClosingQuote(txt, i + 1) = -1 THEN i
                       ELSE UnterminatedQuote(txt, ClosingQuote(txt, i + 1))
             ELSE LET ends == {j \in (i + 1)..Len(txt) :
                                  IsSpace(txt[j]) \/ txt[j] \in {Ch.lbrace, Ch.rbrace}}
                  IN  IF ends = {} THEN -1
                      ELSE UnterminatedQuote(txt, (CHOOSE j \in ends : \A k \in ends : j <= k) - 1)

\* C14 (the tokenizer's part): the generator, run to its end, fails at the offset of
\* the opening quote, having yielded the tokens of the text before it and no more
UnterminatedQuoteRaises ==
    (kvpc # "text" /\ UnterminatedQuote(text, 0) >= 0) =>
        /\ stream.err
        /\ stream.off = UnterminatedQuote(text, 0)
        /\ stream.toks = tokenize_keyvalues(SubSeq(text, 1, UnterminatedQuote(text, 0))).toks

\* C14: tokenizing fails with an error that reports the offset of the opening quote
\* whenever a " that begins a token has no later unescaped closing ": no String token
\* is emitted for the unterminated text and loading the file yields no tree, while
\* every token before that offset has been produced unchanged.
C14_UnterminatedQuoteYieldsNoTree ==
    /\ UnterminatedQuoteRaises
    /\ (kvpc = "done" /\ UnterminatedQuote(text, 0) >= 0) => ~result.ok

-----------------------------------------------------------------------------
(* Steam root and library discovery *)

NumDirs == 2    \* directories on disk

\* "~/.steam/root", "~/.local/share/Steam", "~/.steam/steam"
s_tilde_root == <<126, 47, 46, 115, 116, 101, 97, 109, 47, 114, 111, 111, 116>>
s_tilde_share == <<126, 47, 46, 108, 111, 99, 97, 108, 47, 115, 104, 97, 114, 101, 47, 83, 116, 101, 97, 109>>
s_tilde_steam == <<126, 47, 46, 115, 116, 101, 97, 109, 47, 115, 116, 101, 97, 109>>
\* the home directory "/h", and "/mnt/games", a library on another drive
s_home == <<47, 104>>
s_games == <<47, 109, 110, 116, 47, 103, 97, 109, 101, 115>>
\* "libraryfolders", "path", "0", "1", "other"
s_libraryfolders == <<108, 105, 98, 114, 97, 114, 121, 102, 111, 108, 100, 101, 114, 115>>
s_path == <<112, 97, 116, 104>>
s_0 == <<48>>
s_1 == <<49>>
s_other == <<111, 116, 104, 101, 114>>

\* Path(s): the trailing slashes of the spelling are dropped
RECURSIVE Path(_)
Path(s) == IF Len(s) > 1 /\ s[Len(s)] = Ch.slash THEN Path(SubSeq(s, 1, Len(s) - 1)) ELSE s

\* p.expanduser(): a leading ~ stands for the home directory
expanduser(p) ==
    IF p = <<126>> \/ startswith(p, <<126, Ch.slash>>)
    THEN s_home \o SubSeq(p, 2, Len(p)) ELSE p

\* the paths that can lead somewhere
FsPaths == {expanduser(Path(s_tilde_root)), expanduser(Path(s_tilde_share)),
            expanduser(Path(s_tilde_steam)), s_games}

\* the directory the path p leads to, symbolic links followed (0: nothing there)
Resolve(fs, p) == IF p \in DOMAIN fs.resolve THEN fs.resolve[p] ELSE 0

\* p.exists()
exists(fs, p) == Resolve(fs, p) # 0

\* (p / "steamapps").is_dir()
HasSteamapps(fs, p) == exists(fs, p) /\ fs.apps[Resolve(fs, p)]

\* candidates: the override when STEAM_ROOT is set and not empty, then the three
\* conventional locations; None entries are skipped by both loops
Candidates(e) ==
    (IF e.has /\ e.s # <<>> THEN <<expanduser(Path(e.s))>> ELSE <<>>)
        \o <<expanduser(Path(s_tilde_root)), expanduser(Path(s_tilde_share)),
             expanduser(Path(s_tilde_steam))>>

\* the first of the candidates whose index is in hits, None when there is none
FirstOf(cands, hits) ==
    IF hits = {} THEN None
    ELSE Some(cands[CHOOSE i \in hits : \A j \in hits : i <= j])

\* the indices of the candidates that exist, and of those with steamapps
ExistingAt(e, fs) == {i \in 1..Len(Candidates(e)) : exists(fs, Candidates(e)[i])}
WithSteamappsAt(e, fs) == {i \in 1..Len(Candidates(e)) : HasSteamapps(fs, Candidates(e)[i])}

\* a locator that takes the first candidate that exists, with steamapps or not
find_steam_root_FirstExisting(e, fs) == FirstOf(Candidates(e), ExistingAt(e, fs))

\* find_steam_root(): None stands for FileNotFoundError
find_steam_root(e, fs) ==
    IF WithSteamappsAt(e, fs) # {} THEN FirstOf(Candidates(e), WithSteamappsAt(e, fs))
    ELSE FirstOf(Candidates(e), ExistingAt(e, fs))

\* add(p) of discover_library_paths: appended when p has a steamapps directory and no
\* equal Path is in the list
add(fs, ls, p) ==
    IF HasSteamapps(fs, expanduser(p)) /\ (\A i \in 1..Len(ls) : ls[i] # expanduser(p))
    THEN Append(ls, expanduser(p)) ELSE ls

\* the loop over root.items(), from entry i on
RECURSIVE AddFolders(_, _, _, _)
AddFolders(fs, ls, folders, i) ==
    IF i > Len(folders) THEN ls
    ELSE LET v == folders[i].v
         IN  IF /\ v.t = "obj"
                /\ DictHas(v.o, s_path)
                /\ DictGet(v.o, s_path).t = "str"
                /\ DictGet(v.o, s_path).s # <<>>
             THEN AddFolders(fs, add(fs, ls, Path(DictGet(v.o, s_path).s)), folders, i + 1)
             ELSE AddFolders(fs, ls, folders, i + 1)

\* discover_library_paths(steam_root); v is steamapps/libraryfolders.vdf of the root,
\* which is there only when the root has a steamapps directory
discover_library_paths(fs, v, steam_root) ==
    LET ls == add(fs, <<>>, steam_root)
        kv == parse_keyvalues(v.stream)
    IN  IF ~(HasSteamapps(fs, steam_root) /\ v.kind # "missing") THEN ls
        ELSE IF v.kind = "unreadable" \/ ~kv.ok THEN ls
        ELSE IF ~DictHas(kv.obj, s_libraryfolders) THEN ls
        ELSE IF DictGet(kv.obj, s_libraryfolders).t # "obj" THEN ls
        ELSE AddFolders(fs, ls, DictGet(kv.obj, s_libraryfolders).o, 1)

MaxEntries == 2    \* library folders listed in libraryfolders.vdf

\* the spellings written in descriptors: the Steam directory, the other library, and
\* the other library with a trailing slash
DescPaths == {expanduser(Path(s_tilde_share)), s_games, s_games \o <<Ch.slash>>}

EntrySeqs == UNION { [1..n -> DescPaths] : n \in 0..MaxEntries }

FolderKey(i) == IF i = 1 THEN s_0 ELSE IF i = 2 THEN s_1 ELSE NatToStr(i - 1)

\* the tokens of  "<i-1>" { "path" "<p>" }  for each entry
RECURSIVE FolderToks(_, _)
FolderToks(es, i) ==
    IF i > Len(es) THEN <<>>
    ELSE <<StrTok(FolderKey(i)), LBRACE, StrTok(s_path), StrTok(es[i]), RBRACE>>
             \o FolderToks(es, i + 1)

\* the tokens of a descriptor:  "libraryfolders" { ... }
Descriptor(es) == <<StrTok(s_libraryfolders), LBRACE>> \o FolderToks(es, 1) \o <<RBRACE>>

\* a descriptor with as many entries as can be: the Steam directory, then the other
\* library
FullSeq == [i \in 1..MaxEntries |-> IF i = 1 THEN expanduser(Path(s_tilde_share)) ELSE s_games]

\* descriptors as Steam writes them, and damaged ones: cut off before the end, with
\* another top-level key, with a string for the libraryfolders block, or with a
\* quote the tokenizer fails on
Descriptors ==
    {Yields(Descriptor(es)) : es \in EntrySeqs}
        \cup {Yields(SubSeq(Descriptor(FullSeq), 1, Len(Descriptor(FullSeq)) - n)) : n \in 1..3}
        \cup {Yields(<<StrTok(s_other)>> \o Tail(Descriptor(FullSeq))),
              Yields(<<StrTok(s_libraryfolders), StrTok(s_games)>>),
              Raises(SubSeq(Descriptor(FullSeq), 1, Len(Descriptor(FullSeq)) - 2), 0)}

VdfFiles ==
    {[kind |-> "missing", stream |-> Yields(<<>>)],
     [kind |-> "unreadable", stream |-> Yields(<<>>)]}
        \cup {[kind |-> "file", stream |-> g] : g \in Descriptors}

Dirs == 1..NumDirs

\* the paths in a fixed order
FsPathSeq == <<expanduser(Path(s_tilde_root)), expanduser(Path(s_tilde_share)),
               expanduser(Path(s_tilde_steam)), s_games>>

\* the index of the first path that leads to directory d (0: no path does)
FirstUse(r, d) ==
    LET at == {i \in 1..Len(FsPathSeq) : r[FsPathSeq[i]] = d}
    IN  IF at = {} THEN 0 ELSE CHOOSE i \in at : \A j \in at : i <= j

\* directories are numbered in the order in which the paths first lead to them, and
\* a directory no path leads to has nothing in it
Numbered(r, a) ==
    \A d \in Dirs :
        IF FirstUse(r, d) = 0 THEN ~a[d]
        ELSE d = 1 \/ (FirstUse(r, d - 1) # 0 /\ FirstUse(r, d - 1) < FirstUse(r, d))

FileSystems ==
    {fs \in {[resolve |-> r, apps |-> a] :
                 r \in [FsPaths -> {0} \cup Dirs], a \in [Dirs -> BOOLEAN]} :
         Numbered(fs.resolve, fs.apps)}

InitLocate ==
    /\ LibIdle
    /\ KVIdle
    /\ ExtIdle
    /\ DlIdle
    /\ env \in {None, Some(<<>>), Some(s_games)}
    /\ fsys \in FileSystems
    /\ vdf \in VdfFiles
    /\ root = None
    /\ libs = <<>>
    /\ locpc = "start"

\* steam_root = find_steam_root()
FindSteamRoot ==
    /\ locpc = "start"
    /\ root' = find_steam_root(env, fsys)
    /\ locpc' = IF find_steam_root(env, fsys).has THEN "rooted" ELSE "notfound"
    /\ UNCHANGED <<env, fsys, vdf, libs>>
    /\ UNCHANGED <<libvars, kvvars, dlvars, extvars>>

\* libs = discover_library_paths(steam_root)
DiscoverLibraryPaths ==
    /\ locpc = "rooted"
    /\ libs' = discover_library_paths(fsys, vdf, root.s)
    /\ locpc' = "done"
    /\ UNCHANGED <<env, fsys, vdf, root>>
    /\ UNCHANGED <<libvars, kvvars, dlvars, extvars>>

NextLocate == FindSteamRoot \/ DiscoverLibraryPaths

\* the locator over every file system and descriptor of the pools
SpecLocate == InitLocate /\ [][NextLocate]_vars

-----------------------------------------------------------------------------
(* Properties of the locator *)

\* the candidates in the order of the claim, written out: the override (when
\* STEAM_ROOT is set and not empty), /h/.steam/root, /h/.local/share/Steam,
\* /h/.steam/steam
CandidateOrder ==
    <<IF env.has /\ env.s # <<>> THEN env ELSE None,
      Some(<<47, 104, 47, 46, 115, 116, 101, 97, 109, 47, 114, 111, 111, 116>>),
      Some(<<47, 104, 47, 46, 108, 111, 99, 97, 108, 47, 115, 104, 97, 114, 101, 47, 83, 116, 101, 97, 109>>),
      Some(<<47, 104, 47, 46, 115, 116, 101, 97, 109, 47, 115, 116, 101, 97, 109>>)>>

WithSteamapps ==
    {i \in 1..4 : CandidateOrder[i].has /\ HasSteamapps(fsys, CandidateOrder[i].s)}

Existing == {i \in 1..4 : CandidateOrder[i].has /\ exists(fsys, CandidateOrder[i].s)}

\* C15: find_steam_root returns the first candidate, in the order STEAM_ROOT override,
\* ~/.steam/root, ~/.local/share/Steam, ~/.steam/steam, that has a steamapps child
\* directory; if none has one, the first candidate that exists at all; it fails with
\* not-found if and only if no candidate exists.
C15_FirstCandidateWithSteamapps ==
    locpc \in {"rooted", "done", "notfound"} =>
        /\ \A i \in WithSteamapps :
               (\A j \in WithSteamapps : i <= j) => root = CandidateOrder[i]
        /\ WithSteamapps = {} =>
               \A i \in Existing : (\A j \in Existing : i <= j) => root = CandidateOrder[i]
        /\ locpc = "notfound" <=> Existing = {}
        /\ locpc = "notfound" <=> ~root.has

\* the override exists without steamapps, ~/.steam/root is missing, and
\* ~/.local/share/Steam, which has steamapps, was returned
C15_Witness ==
    /\ locpc = "rooted"
    /\ env = Some(s_games)
    /\ exists(fsys, s_games) /\ ~HasSteamapps(fsys, s_games)
    /\ ~exists(fsys, CandidateOrder[2].s)
    /\ HasSteamapps(fsys, CandidateOrder[3].s)
    /\ root = CandidateOrder[3]

\* the entries of list whose directory (symbolic links followed) has steamapps, one
\* per directory, the first spelling of each kept, from entry i on; seen = the
\* directories already listed
RECURSIVE FirstPerDirectory(_, _, _)
FirstPerDirectory(list, i, seen) ==
    IF i > Len(list) THEN <<>>
    ELSE LET d == Resolve(fsys, list[i])
         IN  IF d = 0 \/ ~fsys.apps[d] \/ d \in seen THEN FirstPerDirectory(list, i + 1, seen)
             ELSE <<list[i]>> \o FirstPerDirectory(list, i + 1, seen \cup {d})

\* C16: discover_library_paths returns no two entries that denote the same resolved
\* directory (two spellings of one location count as the same), keeps the first
\* occurrence in root-then-descriptor order, and returns only paths that have a
\* steamapps directory; for a descriptor listing the root and one other library it
\* returns exactly [root, other].
C16_OneEntryPerDirectory ==
    locpc = "done" =>
        /\ \A i, j \in 1..Len(libs) :
               i # j => Resolve(fsys, libs[i]) # Resolve(fsys, libs[j])
        /\ \A i \in 1..Len(libs) : HasSteamapps(fsys, libs[i])
        /\ \A es \in EntrySeqs :
               (/\ HasSteamapps(fsys, root.s)
                /\ vdf = [kind |-> "file", stream |-> Yields(Descriptor(es))]) =>
                   libs = FirstPerDirectory(<<root.s>> \o [i \in 1..Len(es) |-> Path(es[i])],
                                            1, {})

\* the descriptor is there, is read, and is a block body of the grammar with a
\* top-level libraryfolders block
DescriptorWellFormed ==
    /\ HasSteamapps(fsys, root.s)
    /\ vdf.kind = "file"
    /\ ~vdf.stream.err
    /\ WellFormedBody(vdf.stream.toks, 1, Len(vdf.stream.toks))
    /\ \E i \in 1..Len(vdf.stream.toks) :
           /\ vdf.stream.toks[i] = StrTok(s_libraryfolders)
           /\ i < Len(vdf.stream.toks)
           /\ vdf.stream.toks[i + 1].t = "lbrace"
           /\ CloseOf(vdf.stream.toks, 1, 0) = 0
           /\ \A j \in 1..(i - 1) : OpenAtEnd(SubSeq(vdf.stream.toks, 1, j), 1, 0) = 0

\* C17: if libraryfolders.vdf is missing, unreadable or malformed (its text does not
\* conform to the grammar, e.g. it is cut off inside a block, or it has no top-level
\* libraryfolders block), discover_library_paths raises nothing and returns just the
\* root: no path taken from a malformed descriptor is ever added.
C17_MalformedDescriptorGivesRoot ==
    (locpc = "done" /\ ~DescriptorWellFormed) =>
        libs = IF HasSteamapps(fsys, root.s) THEN <<root.s>> ELSE <<>>

-----------------------------------------------------------------------------
(* Manifest files, the library scan and the download view over them *)

\* "AppState" and the recognized keys of the block
s_AppState == <<65, 112, 112, 83, 116, 97, 116, 101>>
FieldKey ==
    [appid |-> <<97, 112, 112, 105, 100>>,
     name |-> <<110, 97, 109, 101>>,
     installdir |-> <<105, 110, 115, 116, 97, 108, 108, 100, 105, 114>>,
     StateFlags |-> <<83, 116, 97, 116, 101, 70, 108, 97, 103, 115>>,
     SizeOnDisk |-> <<83, 105, 122, 101, 79, 110, 68, 105, 115, 107>>,
     BytesDownloaded |-> <<66, 121, 116, 101, 115, 68, 111, 119, 110, 108, 111, 97, 100, 101, 100>>,
     BytesToDownload |-> <<66, 121, 116, 101, 115, 84, 111, 68, 111, 119, 110, 108, 111, 97, 100>>,
     BytesToStage |-> <<66, 121, 116, 101, 115, 84, 111, 83, 116, 97, 103, 101>>]

\* str() of a block that stands where a string is expected: "{...}", not blank and
\* not a number
s_dictrepr == <<123, 46, 46, 46, 125>>

\* appstate.get(key) as the extractors use it: an empty block is falsy for "or" and
\* no number for _int, which is what an absent key gives
Field(o, key) ==
    IF ~DictHas(o, key) THEN None
    ELSE IF DictGet(o, key).t = "str" THEN Some(DictGet(o, key).s)
    ELSE IF DictGet(o, key).o = <<>> THEN None
    ELSE Some(s_dictrepr)

Failed(how) == [kv |-> how, size |-> 0, appstate |-> NoFields]

\* load_keyvalues_file(mf) and kv.get("AppState") for the file f = [kind, stream]
Loaded(f) ==
    LET kv == parse_keyvalues(f.stream)
    IN  IF f.kind = "nofile" THEN NoFile
        ELSE IF f.kind = "unreadable" THEN Failed("unreadable")
        ELSE IF ~kv.ok THEN Failed(IF kv.error = "tokenize" THEN "tokenize" ELSE "parse")
        ELSE IF ~DictHas(kv.obj, s_AppState) THEN Failed("noappstate")
        ELSE IF DictGet(kv.obj, s_AppState).t # "obj" THEN Failed("noappstate")
        ELSE [kv |-> "appstate",
              size |-> Len(DictGet(kv.obj, s_AppState).o),
              appstate |-> [f2 \in DOMAIN FieldKey |->
                               Field(DictGet(kv.obj, s_AppState).o, FieldKey[f2])]]

\* the tokens of  key value  for each pair
RECURSIVE PairToks(_)
PairToks(pairs) ==
    IF pairs = <<>> THEN <<>>
    ELSE <<StrTok(Head(pairs)[1]), StrTok(Head(pairs)[2])>> \o PairToks(Tail(pairs))

\* the tokens of a manifest:  "AppState" { ... }
ManifestToks(pairs) == <<StrTok(s_AppState), LBRACE>> \o PairToks(pairs) \o <<RBRACE>>

File(toks) == [kind |-> "file", stream |-> Yields(toks)]

s_five == <<53>>
s_three == <<51>>
s_x1 == <<120, 49>>
s_sp2sp == <<32, 50, 32>>

\* manifest files: complete ones, with and without pending bytes, with a name, a
\* blank name, a padded name or none, with an appid that is absent, zero or no number,
\* with other numbers that are no numbers, with counters that are zero, negative or
\* equal (50 of 100 bytes); and files that give no AppState block
ManifestFiles ==
    { File(ManifestToks(<<<<FieldKey.appid, <<49>>>>, <<FieldKey.name, s_ab>>,
                          <<FieldKey.BytesDownloaded, s_three>>,
                          <<FieldKey.BytesToDownload, s_five>>>>)),
      File(ManifestToks(<<<<FieldKey.appid, <<50>>>>, <<FieldKey.name, s_AB>>,
                          <<FieldKey.SizeOnDisk, <<55>>>>>>)),
      File(ManifestToks(<<<<FieldKey.appid, <<49>>>>, <<FieldKey.name, s_blank>>,
                          <<FieldKey.BytesToDownload, s_five>>>>)),
      File(ManifestToks(<<<<FieldKey.appid, s_sp2sp>>, <<FieldKey.BytesToStage, <<49>>>>>>)),
      File(ManifestToks(<<<<FieldKey.appid, <<50>>>>, <<FieldKey.name, s_spZ>>,
                          <<FieldKey.BytesDownloaded, s_five>>,
                          <<FieldKey.BytesToDownload, s_five>>>>)),
      File(ManifestToks(<<<<FieldKey.name, s_ab>>, <<FieldKey.BytesToDownload, s_five>>>>)),
      File(ManifestToks(<<<<FieldKey.appid, <<48>>>>, <<FieldKey.name, s_ab>>,
                          <<FieldKey.BytesToDownload, s_five>>>>)),
      File(ManifestToks(<<<<FieldKey.appid, s_x1>>, <<FieldKey.name, s_ab>>,
                          <<FieldKey.BytesToDownload, s_five>>>>)),
      File(ManifestToks(<<<<FieldKey.appid, <<51>>>>, <<FieldKey.StateFlags, s_x1>>,
                          <<FieldKey.BytesDownloaded, s_x1>>,
                          <<FieldKey.BytesToDownload, s_five>>>>)),
      File(ManifestToks(<<<<FieldKey.appid, <<51>>>>, <<FieldKey.BytesDownloaded, s_five>>,
                          <<FieldKey.BytesToDownload, <<45, 50>>>>,
                          <<FieldKey.BytesToStage, <<48>>>>>>)),
      File(ManifestToks(<<<<FieldKey.appid, <<51>>>>,
                          <<FieldKey.BytesDownloaded, <<45, 57>>>>,
                          <<FieldKey.BytesToDownload, s_five>>>>)),
      File(ManifestToks(<<<<FieldKey.appid, <<49>>>>, <<FieldKey.name, s_ab>>,
                          <<FieldKey.BytesDownloaded, <<53, 48>>>>,
                          <<FieldKey.BytesToDownload, <<53, 48>>>>>>)),
      File(ManifestToks(<<>>)),
      File(<<StrTok(s_AppState), LBRACE, StrTok(FieldKey.appid)>>),
      [kind |-> "file",
       stream |-> Raises(<<StrTok(s_AppState), LBRACE, StrTok(FieldKey.appid)>>, 0)],
      [kind |-> "unreadable", stream |-> Yields(<<>>)],
      File(<<StrTok(s_other), LBRACE, StrTok(FieldKey.appid), StrTok(<<49>>), RBRACE>>),
      File(<<StrTok(s_AppState), StrTok(s_ab)>>),
      File(<<>>) }

ScanDisks ==
    { d \in [Slots -> {Loaded(f) : f \in ManifestFiles} \cup {NoFile}] :
          Cardinality({sl \in Slots : d[sl] # NoFile}) <= MaxFiles }

\* progress: bytes_downloaded / total clamped to [0, 1], kept as the fraction
\* [num, den] with den > 0 (the rounding of the float division is left out)
Progress(bytes_downloaded, total) ==
    IF total <= 0 \/ bytes_downloaded <= 0 THEN [num |-> 0, den |-> 1]
    ELSE IF bytes_downloaded >= total THEN [num |-> 1, den |-> 1]
    ELSE [num |-> bytes_downloaded, den |-> total]

NoEntry == [appid |-> 0]

\* _maybe_download_entry with the test on bytes_to_stage left out
_maybe_download_entry_NeedsDownload(a, library_path) ==
    LET appid == _int(a.appid, 0)
        name == IF a.name.has /\ a.name.s # <<>> THEN a.name.s ELSE Placeholder(appid)
        bytes_downloaded == _int(a.BytesDownloaded, 0)
        bytes_to_download == _int(a.BytesToDownload, 0)
        total == bytes_downloaded + (IF bytes_to_download > 0 THEN bytes_to_download ELSE 0)
    IN  IF appid = 0 \/ bytes_to_download <= 0 THEN NoEntry
        ELSE [appid |-> appid, name |-> name, library_path |-> library_path,
              bytes_downloaded |-> bytes_downloaded,
              bytes_to_download |-> bytes_to_download,
              bytes_to_stage |-> _int(a.BytesToStage, 0),
              total_bytes |-> total,
              progress |-> Progress(bytes_downloaded, total),
              state_flags |-> _int(a.StateFlags, 0)]

\* _maybe_download_entry(appstate, library_path): NoEntry stands for None
_maybe_download_entry(a, library_path) ==
    LET appid == _int(a.appid, 0)
        name == IF a.name.has /\ a.name.s # <<>> THEN a.name.s ELSE Placeholder(appid)
        bytes_downloaded == _int(a.BytesDownloaded, 0)
        bytes_to_download == _int(a.BytesToDownload, 0)
        bytes_to_stage == _int(a.BytesToStage, 0)
        total == bytes_downloaded + (IF bytes_to_download > 0 THEN bytes_to_download ELSE 0)
    IN  IF appid = 0 THEN NoEntry
        ELSE IF bytes_to_download <= 0 /\ bytes_to_stage <= 0 THEN NoEntry
        ELSE [appid |-> appid, name |-> name, library_path |-> library_path,
              bytes_downloaded |-> bytes_downloaded,
              bytes_to_download |-> bytes_to_download,
              bytes_to_stage |-> bytes_to_stage,
              total_bytes |-> total,
              progress |-> Progress(bytes_downloaded, total),
              state_flags |-> _int(a.StateFlags, 0)]

\* the loop of generate over the manifest files: _extract_appstate gives None when
\* the load fails or there is no AppState block, and an empty block is skipped too
RECURSIVE DownloadLoop(_, _)
DownloadLoop(out, files) ==
    IF files = <<>> THEN out
    ELSE LET c == Head(files).content
             entry == _maybe_download_entry(c.appstate, Libs[Head(files).lib])
         IN  IF c.kv # "appstate" \/ c.size = 0 THEN DownloadLoop(out, Tail(files))
             ELSE IF entry = NoEntry THEN DownloadLoop(out, Tail(files))
             ELSE DownloadLoop(Append(out, entry), Tail(files))

\* the sort key (-progress, name.casefold()) of a before that of b
DownloadBefore(a, b) ==
    \/ a.progress.num * b.progress.den > b.progress.num * a.progress.den
    \/ /\ a.progress.num * b.progress.den = b.progress.num * a.progress.den
       /\ StrLess(casefold(a.name), casefold(b.name))

\* insert e after every element whose key is not greater
RECURSIVE InsertDownload(_, _)
InsertDownload(lst, e) ==
    IF lst = <<>> THEN <<e>>
    ELSE IF DownloadBefore(e, Head(lst)) THEN <<e>> \o lst
    ELSE <<Head(lst)>> \o InsertDownload(Tail(lst), e)

\* downloads.sort(key=...): stable
RECURSIVE SortDownloads(_, _)
SortDownloads(done, rest) ==
    IF rest = <<>> THEN done
    ELSE SortDownloads(InsertDownload(done, Head(rest)), Tail(rest))

\* generate(): the "downloads" list, over the manifest files in glob order
generate(files) == SortDownloads(<<>>, DownloadLoop(<<>>, files))

InitScan ==
    /\ KVIdle
    /\ ExtIdle
    /\ LocIdle
    /\ manifests \in ScanDisks
    /\ cache = {}
    /\ response = {}
    /\ heap = <<>>
    /\ installed = <<>>
    /\ owned = <<>>
    /\ games = <<>>
    /\ snapshot = <<>>
    /\ runs = 0
    /\ pc = "start"
    /\ downloads = <<>>
    /\ dlpc = "start"

\* steam_downloads: payload = generate()
GenerateDownloads ==
    /\ dlpc = "start"
    /\ \E o1 \in GlobOrders(manifests, 1), o2 \in GlobOrders(manifests, 2) :
          downloads' = generate(o1 \o o2)
    /\ dlpc' = "done"
    /\ UNCHANGED <<libvars, kvvars, locvars, extvars>>

NextScan == ParseInstalled \/ GenerateDownloads

\* steam_library and steam_downloads scanning the same manifest files
SpecScan == InitScan /\ [][NextScan]_vars

-----------------------------------------------------------------------------
(* Properties of the manifest extractors *)

\* the manifest files that could not be read, tokenized or parsed, or that have no
\* top-level AppState block
FailedSlots ==
    {sl \in Slots : manifests[sl].kv \in {"unreadable", "tokenize", "parse", "noappstate"}}

\* the disk without those files
WithoutFailed == [sl \in Slots |-> IF sl \in FailedSlots THEN NoFile ELSE manifests[sl]]

\* C18: in a scan, a manifest file that cannot be read, tokenized or parsed, or that
\* has no top-level AppState block, contributes no record and lets no error escape;
\* the records produced from all other files are the same as if that file did not
\* exist.
C18_FailedManifestIsSkipped ==
    /\ (pc = "parsed" /\ FailedSlots # {}) =>
           \E o1 \in GlobOrders(WithoutFailed, 1), o2 \in GlobOrders(WithoutFailed, 2) :
               [games |-> installed, heap |-> heap] = parse_installed_games(o1 \o o2, cache)
    /\ (dlpc = "done" /\ FailedSlots # {}) =>
           \E o1 \in GlobOrders(WithoutFailed, 1), o2 \in GlobOrders(WithoutFailed, 2) :
               downloads = generate(o1 \o o2)

\* a library holds a file that fails to load and a file with pending bytes; both
\* scans have run and each has the one record
C18_Witness ==
    /\ pc = "parsed"
    /\ dlpc = "done"
    /\ \E a, b \in Slots :
           /\ a.lib = b.lib
           /\ a \in FailedSlots
           /\ manifests[b].kv = "appstate"
    /\ Len(installed) = 1
    /\ Len(downloads) = 1

\* the field x is the decimal writing of an integer, surrounded by whitespace or not
IsNumber(x) == \E n \in (0 - 9)..99 : x.has /\ strip(x.s) = IntToStr(n)

Number(x) == CHOOSE n \in (0 - 9)..99 : strip(x.s) = IntToStr(n)

\* the number read from the field, 0 when it is absent or is no number
NumberOr0(x) == IF IsNumber(x) THEN Number(x) ELSE 0

\* the manifest files with an AppState block whose appid is a number other than 0
ValidSlots ==
    {sl \in Slots : /\ manifests[sl].kv = "appstate"
                     /\ IsNumber(manifests[sl].appstate.appid)
                     /\ Number(manifests[sl].appstate.appid) # 0}

AppIdOf(sl) == Number(manifests[sl].appstate.appid)

\* no other manifest file has the appid of sl
OnlyFileOfApp(sl) == \A o \in ValidSlots : AppIdOf(o) = AppIdOf(sl) => o = sl

\* C19: a manifest whose appid is missing, is 0, or cannot be converted to an integer
\* yields no record, while any other numeric field that is missing or unconvertible
\* is read as 0 without failing; hence every record in the catalog has a valid
\* non-zero app_id equal to the key it is stored under.
C19_NoRecordWithoutAppId ==
    /\ pc = "parsed" =>
           /\ DictKeys(installed) = {AppIdOf(sl) : sl \in ValidSlots}
           /\ \A i \in 1..Len(installed) :
                  installed[i].k # 0 /\ heap[installed[i].v].appid = installed[i].k
           /\ \A sl \in ValidSlots :
                  OnlyFileOfApp(sl) =>
                      LET g == heap[DictGet(installed, AppIdOf(sl))]
                          a == manifests[sl].appstate
                      IN  /\ g.state_flags = NumberOr0(a.StateFlags)
                          /\ g.size_on_disk = NumberOr0(a.SizeOnDisk)
    /\ dlpc = "done" =>
           /\ {downloads[i].appid : i \in 1..Len(downloads)}
                  \subseteq {AppIdOf(sl) : sl \in ValidSlots}
           /\ \A sl \in ValidSlots, i \in 1..Len(downloads) :
                  (OnlyFileOfApp(sl) /\ downloads[i].appid = AppIdOf(sl)) =>
                      LET a == manifests[sl].appstate
                      IN  /\ downloads[i].bytes_downloaded = NumberOr0(a.BytesDownloaded)
                          /\ downloads[i].bytes_to_download = NumberOr0(a.BytesToDownload)
                          /\ downloads[i].bytes_to_stage = NumberOr0(a.BytesToStage)
                          /\ downloads[i].state_flags = NumberOr0(a.StateFlags)

\* one manifest has an appid that is no number (or 0, or none), the other has appid 3
\* and a StateFlags that is no number: the catalog holds app 3 alone, state_flags 0
C19_Witness ==
    /\ pc = "parsed"
    /\ dlpc = "done"
    /\ \E a, b \in Slots :
           /\ manifests[a].kv = "appstate" /\ a \notin ValidSlots
           /\ b \in ValidSlots
           /\ manifests[b].appstate.StateFlags.has
           /\ ~IsNumber(manifests[b].appstate.StateFlags)
    /\ Len(installed) = 1
    /\ heap[installed[1].v].state_flags = 0
    /\ Len(downloads) = 1

\* the manifest's name is absent or blank (empty or whitespace only)
BlankName(a) == ~a.name.has \/ \A i \in 1..Len(a.name.s) : IsSpace(a.name.s[i])

\* the name the claim gives a record of the manifest: the placeholder, or the
\* manifest's name (with or without the whitespace around it)
NameOK(name, a, appid) ==
    IF BlankName(a) THEN name = Placeholder(appid)
    ELSE name \in {a.name.s, strip(a.name.s)}

\* C20: wherever a record is built from a manifest (library catalog and
\* download-progress view alike), its name is the placeholder "App <appid>" when the
\* manifest's name is absent or blank (empty or whitespace only), and the manifest's
\* name otherwise; the two extractors give the same name for the same manifest.
C20_SameNameInBothViews ==
    \A sl \in ValidSlots :
        OnlyFileOfApp(sl) =>
            /\ pc = "parsed" =>
                   NameOK(heap[DictGet(installed, AppIdOf(sl))].name,
                          manifests[sl].appstate, AppIdOf(sl))
            /\ dlpc = "done" =>
                   \A i \in 1..Len(downloads) :
                       downloads[i].appid = AppIdOf(sl) =>
                           /\ NameOK(downloads[i].name, manifests[sl].appstate, AppIdOf(sl))
                           /\ pc = "parsed" =>
                                  downloads[i].name
                                      = heap[DictGet(installed, AppIdOf(sl))].name

\* the manifest has pending bytes: bytes_to_download > 0 or bytes_to_stage > 0
Pending(sl) ==
    \/ NumberOr0(manifests[sl].appstate.BytesToDownload) > 0
    \/ NumberOr0(manifests[sl].appstate.BytesToStage) > 0

InView(appid) == \E i \in 1..Len(downloads) : downloads[i].appid = appid

\* C21: a manifest's record appears in the download-progress view if and only if
\* bytes_to_download > 0 or bytes_to_stage > 0 (and its appid is valid); a record with
\* both at zero or below is left out whatever bytes_downloaded is.
C21_InViewIffPendingBytes ==
    dlpc = "done" =>
        /\ Len(downloads) = Cardinality({sl \in ValidSlots : Pending(sl)})
        /\ \A sl \in ValidSlots : OnlyFileOfApp(sl) => (InView(AppIdOf(sl)) <=> Pending(sl))
        /\ \A i \in 1..Len(downloads) :
               downloads[i].bytes_to_download > 0 \/ downloads[i].bytes_to_stage > 0

\* one manifest has bytes downloaded and nothing pending (zero to stage, a negative
\* number to download), the other has bytes to stage alone: the view holds the second
C21_Witness ==
    /\ dlpc = "done"
    /\ \E a, b \in ValidSlots :
           /\ NumberOr0(manifests[a].appstate.BytesDownloaded) > 0
           /\ NumberOr0(manifests[a].appstate.BytesToDownload) < 0
           /\ ~Pending(a)
           /\ NumberOr0(manifests[b].appstate.BytesToDownload) = 0
           /\ NumberOr0(manifests[b].appstate.BytesToStage) > 0
           /\ Len(downloads) = 1
           /\ downloads[1].appid = AppIdOf(b)

\* bytes_downloaded / den clamped to [0, 1], as a test on the fraction p
IsClampedRatio(p, bytes_downloaded, den) ==
    LET n == IF den < 0 THEN 0 - bytes_downloaded ELSE bytes_downloaded
        d == IF den < 0 THEN 0 - den ELSE den
    IN  IF n <= 0 THEN p.num = 0
        ELSE IF n >= d THEN p.num = p.den
        ELSE p.num * d = n * p.den

\* C22: for every record in the download-progress view and all integer counter
\* values (negative ones included), progress equals bytes_downloaded /
\* (bytes_downloaded + max(bytes_to_download, 0)) clamped to [0, 1], and is 0 when
\* that denominator is 0; so it always lies in [0, 1] and (50, 50) gives 0.5.
C22_ProgressFormula ==
    dlpc = "done" =>
        \A i \in 1..Len(downloads) :
            LET e == downloads[i]
                den == e.bytes_downloaded
                           + (IF e.bytes_to_download > 0 THEN e.bytes_to_download ELSE 0)
            IN  /\ e.progress.den > 0
                /\ 0 <= e.progress.num /\ e.progress.num <= e.progress.den
                /\ den = 0 => e.progress.num = 0
                /\ den # 0 => IsClampedRatio(e.progress, e.bytes_downloaded, den)
                /\ (e.bytes_downloaded = 50 /\ e.bytes_to_download = 50) =>
                       2 * e.progress.num = e.progress.den

\* the string is empty or holds whitespace only
Blank(s) == \A i \in 1..Len(s) : IsSpace(s[i])

\* C28: every record returned by merge_games has a non-blank name, either a real name
\* or the placeholder "App <app_id>": an owned record whose name is an empty or
\* whitespace-only string never leaves a merged record with an empty or blank name,
\* whether or not the app is also installed.
C28_MergedNameNotBlank ==
    pc \in {"merged", "written"} =>
        \A i \in 1..Len(games) : ~Blank(heap[games[i]].name)

-----------------------------------------------------------------------------
(* Manifest files read while they are being written *)

\* the document of a manifest:  "AppState" { key value ... }
ManifestDoc(pairs) ==
    <<[k |-> s_AppState,
       v |-> ObjVal([i \in 1..Len(pairs) |-> [k |-> pairs[i][1], v |-> StrVal(pairs[i][2])]])]>>

\* the text of a well-formed manifest: every string quoted, one token per line
ManifestText(pairs) == RenderBody(ManifestDoc(pairs), [bare |-> FALSE, sep |-> <<Ch.nl>>])

CompleteManifests ==
    { ManifestText(<<<<FieldKey.appid, <<49>>>>, <<FieldKey.name, s_ab>>,
                     <<FieldKey.SizeOnDisk, <<55>>>>>>),
      ManifestText(<<<<FieldKey.name, s_AB>>, <<FieldKey.StateFlags, <<52>>>>,
                     <<FieldKey.appid, <<50>>>>, <<FieldKey.BytesToDownload, s_five>>>>) }

\* the text of a file at the moments of a write: everything written so far
Prefixes(t) == {SubSeq(t, 1, n) : n \in 0..Len(t)}

\* the only manifest file of the disk holds the text t
FileOfText(t) ==
    [lib |-> 1, file |-> 1,
     content |-> Loaded([kind |-> "file", stream |-> tokenize_keyvalues(t)])]

InitCut ==
    /\ ExtIdle
    /\ LocIdle
    /\ doc = <<>>
    /\ text \in UNION {Prefixes(c) : c \in CompleteManifests}
    /\ stream = Yields(<<>>)
    /\ result = Returned(<<>>, 1)
    /\ kvpc = "idle"
    /\ manifests = [sl \in Slots |-> IF sl = [lib |-> 1, file |-> 1]
                                      THEN FileOfText(text).content ELSE NoFile]
    /\ cache = {}
    /\ response = {}
    /\ heap = <<>>
    /\ installed = <<>>
    /\ owned = <<>>
    /\ games = <<>>
    /\ snapshot = <<>>
    /\ runs = 0
    /\ pc = "start"
    /\ downloads = <<>>
    /\ dlpc = "start"

\* steam_library and steam_downloads scanning a manifest file caught at any
\* moment of its write
SpecCut == InitCut /\ [][NextScan]_vars

\* the records of a catalog st = [games, heap], in the order of the dict
Records(st) == [i \in 1..Len(st.games) |-> st.heap[st.games[i].v]]

\* C25: a manifest file caught mid-write, i.e. whose text is a proper prefix of a
\* well-formed manifest, never yields a record that differs from the record of the
\* complete file: the scan produces for it either no record at all or the same
\* record, never one with fields missing or defaulted.
C25_CutManifestGivesNoOtherRecord ==
    pc = "parsed" =>
        \A c \in CompleteManifests :
            (text \in Prefixes(c) /\ text # c) =>
                \/ installed = <<>>
                \/ Records([games |-> installed, heap |-> heap])
                       = Records(parse_installed_games(<<FileOfText(c)>>, cache))

-----------------------------------------------------------------------------
(* The Proton-GE updater (src/backend/proton_ge_updater.py) *)

\* the release tags, oldest first; a new release has a new tag
GeTags == <<"GE-Proton9-1", "GE-Proton9-2">>

TagIndex(t) == CHOOSE i \in 1..Len(GeTags) : GeTags[i] = t

\* _installed_versions: the GE-Proton directories, newest first
RECURSIVE _installed_versions(_)
_installed_versions(dirs) ==
    IF dirs = {} THEN <<>>
    ELSE LET newest == CHOOSE d \in dirs : \A o \in dirs : TagIndex(o) <= TagIndex(d)
         IN  <<newest>> \o _installed_versions(dirs \ {newest})

\* _maybe_prune_old: the directories left when all but the `keep` newest are removed
_maybe_prune_old(dirs, keep) ==
    IF keep <= 0 THEN dirs
    ELSE {d \in dirs : \E i \in 1..keep : i <= Cardinality(dirs)
                                           /\ _installed_versions(dirs)[i] = d}

\* the notifications: body of _notify("MiyaShell", ...)
NewAvailable(tag) == <<"New Proton-GE available: ", tag>>
Installed(tag) == <<"Installed Proton-GE: ", tag, " (restart Steam)">>

\* _read_json(out_path).get("last_notified") or ""
LastNotified(out) == IF out.exists THEN out.last_notified ELSE ""

Status(latest, versions, update_available, last_notified, last_error) ==
    [exists |-> TRUE, latest |-> latest, installed |-> versions,
     update_available |-> update_available, last_notified |-> last_notified,
     last_error |-> last_error]

\* run_once with the payload's last_notified starting empty instead of at the
\* value read from the previous status file
run_once_ForgetsOnError(out, cfg, dirs, rel, download) ==
    LET last_notified == LastNotified(out)
        tag == rel.tag
        update_available == tag \notin dirs
        sends == update_available /\ cfg.notify /\ last_notified # tag
        extracted == dirs \cup {tag}
        pruned == _maybe_prune_old(extracted, cfg.keep)
    IN  IF ~rel.ok \/ tag = "" \/ ~rel.asset
        THEN [out |-> Status("", <<>>, FALSE, "", "query"), dirs |-> dirs, notes |-> <<>>,
              pass |-> [outcome |-> "query_error", tag |-> "", sent |-> FALSE,
                        last_notified |-> ""]]
        ELSE IF update_available /\ cfg.auto_install /\ download = "error"
        THEN [out |-> Status(tag, _installed_versions(dirs), TRUE,
                             IF sends THEN tag ELSE "", "download"),
              dirs |-> dirs,
              notes |-> IF sends THEN <<NewAvailable(tag)>> ELSE <<>>,
              pass |-> [outcome |-> "download_error", tag |-> tag, sent |-> sends,
                        last_notified |-> IF sends THEN tag ELSE ""]]
        ELSE IF update_available /\ cfg.auto_install
        THEN [out |-> Status(tag, _installed_versions(pruned), tag \notin extracted,
                             IF sends THEN tag ELSE last_notified, ""),
              dirs |-> pruned,
              notes |-> (IF sends THEN <<NewAvailable(tag)>> ELSE <<>>)
                            \o (IF cfg.notify THEN <<Installed(tag)>> ELSE <<>>),
              pass |-> [outcome |-> "ok", tag |-> tag, sent |-> sends,
                        last_notified |-> IF sends THEN tag ELSE last_notified]]
        ELSE [out |-> Status(tag, _installed_versions(dirs), update_available,
                             IF sends THEN tag ELSE last_notified, ""),
              dirs |-> dirs,
              notes |-> IF sends THEN <<NewAvailable(tag)>> ELSE <<>>,
              pass |-> [outcome |-> "ok", tag |-> tag, sent |-> sends,
                        last_notified |-> IF sends THEN tag ELSE last_notified]]

\* run_once: out is the status file found, rel = [ok, tag, asset] what the release
\* query gives, download how _download_to and _extract_tarball end. The result is
\* the status file written, the directories left, the notifications sent and the
\* entry of the pass in the log.
run_once(out, cfg, dirs, rel, download) ==
    LET last_notified == LastNotified(out)
        tag == rel.tag
        update_available == tag \notin dirs
        sends == update_available /\ cfg.notify /\ last_notified # tag
        notified == IF sends THEN tag ELSE last_notified
        extracted == dirs \cup {tag}
        pruned == _maybe_prune_old(extracted, cfg.keep)
    IN  IF ~rel.ok \/ tag = "" \/ ~rel.asset
        THEN [out |-> Status("", <<>>, FALSE, last_notified, "query"),
              dirs |-> dirs, notes |-> <<>>,
              pass |-> [outcome |-> "query_error", tag |-> "", sent |-> FALSE,
                        last_notified |-> last_notified]]
        ELSE IF update_available /\ cfg.auto_install /\ download = "error"
        THEN [out |-> Status(tag, _installed_versions(dirs), TRUE, notified, "download"),
              dirs |-> dirs,
              notes |-> IF sends THEN <<NewAvailable(tag)>> ELSE <<>>,
              pass |-> [outcome |-> "download_error", tag |-> tag, sent |-> sends,
                        last_notified |-> notified]]
        ELSE IF update_available /\ cfg.auto_install
        THEN [out |-> Status(tag, _installed_versions(pruned), tag \notin extracted,
                             notified, ""),
              dirs |-> pruned,
              notes |-> (IF sends THEN <<NewAvailable(tag)>> ELSE <<>>)
                            \o (IF cfg.notify THEN <<Installed(tag)>> ELSE <<>>),
              pass |-> [outcome |-> "ok", tag |-> tag, sent |-> sends,
                        last_notified |-> notified]]
        ELSE [out |-> Status(tag, _installed_versions(dirs), update_available, notified, ""),
              dirs |-> dirs,
              notes |-> IF sends THEN <<NewAvailable(tag)>> ELSE <<>>,
              pass |-> [outcome |-> "ok", tag |-> tag, sent |-> sends,
                        last_notified |-> notified]]

\* what _github_latest_release can give while GeTags[n] is the latest release: an
\* error, a release without tag or without tarball, or the release
ReleaseAnswers(n) ==
    { [ok |-> FALSE, tag |-> "", asset |-> FALSE],
      [ok |-> TRUE, tag |-> "", asset |-> TRUE],
      [ok |-> TRUE, tag |-> GeTags[n], asset |-> FALSE],
      [ok |-> TRUE, tag |-> GeTags[n], asset |-> TRUE] }

InitUpdater ==
    /\ LibIdle
    /\ KVIdle
    /\ LocIdle
    /\ DlIdle
    /\ WrIdle
    /\ WtIdle
    /\ ge_cfg \in [notify : BOOLEAN, auto_install : BOOLEAN, keep : {0, 1}]
    /\ ge_release = 1
    /\ ge_dirs \in {{}, {GeTags[1]}}
    /\ ge_out = NoStatus
    /\ ge_notes = <<>>
    /\ ge_passes = <<>>

\* one pass: main's once(), at start-up and after each sleep of --watch
RunOnce ==
    /\ Len(ge_passes) < MaxPasses
    /\ \E rel \in ReleaseAnswers(ge_release), download \in {"ok", "error"} :
          LET r == run_once(ge_out, ge_cfg, ge_dirs, rel, download)
          IN  /\ ge_out' = r.out
              /\ ge_dirs' = r.dirs
              /\ ge_notes' = ge_notes \o r.notes
              /\ ge_passes' = Append(ge_passes, r.pass)
    /\ UNCHANGED <<ge_cfg, ge_release>>
    /\ UNCHANGED <<libvars, kvvars, locvars, dlvars, wrvars, wtvars>>

\* a new release is published on GitHub
Publish ==
    /\ ge_release < Len(GeTags)
    /\ ge_release' = ge_release + 1
    /\ UNCHANGED <<ge_cfg, ge_dirs, ge_out, ge_notes, ge_passes>>
    /\ UNCHANGED <<libvars, kvvars, locvars, dlvars, wrvars, wtvars>>

NextUpdater == RunOnce \/ Publish

\* passes of the Proton-GE updater, one after the other, while releases come out
SpecUpdater == InitUpdater /\ [][NextUpdater]_vars

\* C27: across any sequence of run_once passes of the Proton-GE updater with
\* notifications enabled, the "New Proton-GE available: <tag>" notification is sent
\* at most once for as long as the latest release tag stays the same, including
\* across passes that fail (release query or download error) between two successful
\* ones; last_notified written by a pass is never lost by a later failing pass.
C27_NotifiedOncePerTag ==
    /\ \A i, j \in 1..Len(ge_notes) :
           (i < j /\ \E t \in 1..Len(GeTags) : ge_notes[i] = NewAvailable(GeTags[t]))
               => ge_notes[i] # ge_notes[j]
    /\ \A i \in 2..Len(ge_passes) :
           ge_passes[i].outcome # "ok" =>
               ge_passes[i].last_notified
                   = IF ge_passes[i].sent THEN ge_passes[i].tag
                     ELSE ge_passes[i - 1].last_notified
    /\ Len(ge_passes) > 0 => ge_out.last_notified = ge_passes[Len(ge_passes)].last_notified

\* a pass sent the notification, the next pass failed, and a third pass succeeded
\* for the same tag with the update still available: one notification in all
C27_Witness ==
    /\ Len(ge_passes) = 3
    /\ ge_passes[1].sent
    /\ ge_passes[2].outcome \in {"query_error", "download_error"}
    /\ ge_passes[3].outcome = "ok"
    /\ ge_passes[3].tag = ge_passes[1].tag
    /\ ge_out.update_available
    /\ ge_notes = <<NewAvailable(ge_passes[1].tag)>>

-----------------------------------------------------------------------------
(* The snapshot writers: write to a temporary file, then replace the out file *)
(* (write_json of steam_library and steam_friends, write_once of              *)
(* steam_downloads and storage_report, _write_json of lutris_library and      *)
(* local_music, _write_json_atomic of proton_ge_updater)                      *)

\* json.dumps(payload) of write id = <<instance, number>>, as the parts that
\* successive write() calls put into the file
Parts == {1, 2}
Snapshot(id) == [i \in Parts |-> [id |-> id, part |-> i]]

Hole == [id |-> <<0, 0>>, part |-> 0]

\* write(): the part goes to the position of the file descriptor
WriteAt(content, pos, part) ==
    [i \in 1..(IF pos + 1 > Len(content) THEN pos + 1 ELSE Len(content)) |->
        IF i = pos + 1 THEN part ELSE IF i <= Len(content) THEN content[i] ELSE Hole]

InitFiles(procs) ==
    /\ wr_procs = procs
    /\ LibIdle
    /\ KVIdle
    /\ LocIdle
    /\ DlIdle
    /\ GeIdle
    /\ WtIdle
    /\ wr_dir = [n \in Names |-> 0]
    /\ wr_inodes = <<>>
    /\ wr_pc = [w \in wr_procs |-> "idle"]
    /\ wr_fd = [w \in wr_procs |-> NoFd]
    /\ wr_count = 0
    /\ wr_published = <<>>
    /\ rd_fd = 0 - 1
    /\ rd_seen = Unread

\* tmp.write_text(...) / open(tmp, "w"): the file is created, or emptied if it is there
Open(w) ==
    /\ wr_pc[w] = "idle"
    /\ wr_count < MaxWrites
    /\ LET tmp == with_suffix_tmp(OutPath)
           inode == IF wr_dir[tmp] = 0 THEN Len(wr_inodes) + 1 ELSE wr_dir[tmp]
       IN  /\ wr_dir' = [wr_dir EXCEPT ![tmp] = inode]
           /\ wr_inodes' = IF wr_dir[tmp] = 0 THEN Append(wr_inodes, <<>>)
                           ELSE [wr_inodes EXCEPT ![inode] = <<>>]
           /\ wr_fd' = [wr_fd EXCEPT ![w] = [inode |-> inode, pos |-> 0,
                                             id |-> <<w, wr_count + 1>>]]
    /\ wr_count' = wr_count + 1
    /\ wr_pc' = [wr_pc EXCEPT ![w] = "open"]
    /\ UNCHANGED <<wr_procs, wr_published, rd_fd, rd_seen>>
    /\ UNCHANGED <<libvars, kvvars, locvars, dlvars, gevars, wtvars>>

\* one write() of the text
Write(w) ==
    /\ wr_pc[w] = "open"
    /\ wr_fd[w].pos < Cardinality(Parts)
    /\ LET fd == wr_fd[w]
       IN  /\ wr_inodes' = [wr_inodes EXCEPT ![fd.inode] =
                               WriteAt(@, fd.pos, Snapshot(fd.id)[fd.pos + 1])]
           /\ wr_fd' = [wr_fd EXCEPT ![w].pos = @ + 1]
    /\ UNCHANGED <<wr_procs, wr_dir, wr_pc, wr_count, wr_published, rd_fd, rd_seen>>
    /\ UNCHANGED <<libvars, kvvars, locvars, dlvars, gevars, wtvars>>

\* the file is closed and tmp.replace(out_path) / os.replace(tmp, path) renames it;
\* FileNotFoundError when there is no temporary file ends the instance
Replace(w) ==
    /\ wr_pc[w] = "open"
    /\ wr_fd[w].pos = Cardinality(Parts)
    /\ LET tmp == with_suffix_tmp(OutPath)
       IN  IF wr_dir[tmp] = 0
           THEN /\ wr_pc' = [wr_pc EXCEPT ![w] = "crashed"]
                /\ UNCHANGED <<wr_dir, wr_published>>
           ELSE /\ wr_dir' = [n \in Names |-> IF n = OutPath THEN wr_dir[tmp] ELSE 0]
                /\ wr_published' = Append(wr_published, wr_fd[w].id)
                /\ wr_pc' = [wr_pc EXCEPT ![w] = "idle"]
    /\ wr_fd' = [wr_fd EXCEPT ![w] = NoFd]
    /\ UNCHANGED <<wr_procs, wr_inodes, wr_count, rd_fd, rd_seen>>
    /\ UNCHANGED <<libvars, kvvars, locvars, dlvars, gevars, wtvars>>

\* the instance is killed in the middle of a write and started again
Kill(w) ==
    /\ wr_pc[w] = "open"
    /\ wr_pc' = [wr_pc EXCEPT ![w] = "idle"]
    /\ wr_fd' = [wr_fd EXCEPT ![w] = NoFd]
    /\ UNCHANGED <<wr_procs, wr_dir, wr_inodes, wr_count, wr_published, rd_fd, rd_seen>>
    /\ UNCHANGED <<libvars, kvvars, locvars, dlvars, gevars, wtvars>>

\* the reader opens the out path
ReaderOpen ==
    /\ rd_fd' = wr_dir[OutPath]
    /\ rd_seen' = Unread
    /\ UNCHANGED <<wr_procs, wr_dir, wr_inodes, wr_pc, wr_fd, wr_count, wr_published>>
    /\ UNCHANGED <<libvars, kvvars, locvars, dlvars, gevars, wtvars>>

\* the reader reads the file it opened
ReaderRead ==
    /\ rd_fd >= 0
    /\ rd_seen = Unread
    /\ rd_seen' = IF rd_fd = 0 THEN ReadNoFile ELSE ReadFile(wr_inodes[rd_fd])
    /\ UNCHANGED <<wr_procs, wr_dir, wr_inodes, wr_pc, wr_fd, wr_count, wr_published, rd_fd>>
    /\ UNCHANGED <<libvars, kvvars, locvars, dlvars, gevars, wtvars>>

NextFiles ==
    \/ \E w \in wr_procs : Open(w)
    \/ \E w \in wr_procs : Write(w)
    \/ \E w \in wr_procs : Replace(w)
    \/ \E w \in wr_procs : Kill(w)
    \/ ReaderOpen
    \/ ReaderRead

\* one instance of a writer script, which may be killed and started again, and a reader
SpecWriter == InitFiles({1}) /\ [][NextFiles]_vars

\* two instances of the same writer script with the same --out, and a reader
SpecWriters == InitFiles({1, 2}) /\ [][NextFiles]_vars

\* the writes that were begun
WriteIds == {<<w, k>> : w \in wr_procs, k \in 1..MaxWrites}

\* C23: with one writer process performing any sequence of snapshot writes and a
\* reader opening the snapshot path at any moment, the reader sees either no file,
\* the previous complete snapshot or the new complete snapshot, never a partly
\* written one, also when the writer is killed in the middle of a write.
C23_ReaderSeesWholeSnapshot ==
    /\ \/ rd_seen = Unread
       \/ rd_seen = ReadNoFile /\ rd_fd = 0
       \/ \E i \in 1..Len(wr_published) : rd_seen = ReadFile(Snapshot(wr_published[i]))
    /\ IF wr_published = <<>> THEN wr_dir[OutPath] = 0
       ELSE /\ wr_dir[OutPath] # 0
            /\ wr_inodes[wr_dir[OutPath]] = Snapshot(wr_published[Len(wr_published)])

\* the first write was killed half-way and left its temporary file behind, the
\* second write replaced the out file, a third write is half-way, and the reader
\* has read the whole snapshot of the second
C23_Witness ==
    /\ wr_procs = {1}
    /\ wr_published = <<<<1, 2>>>>
    /\ wr_pc[1] = "open"
    /\ wr_fd[1].pos = 1
    /\ rd_seen = ReadFile(Snapshot(<<1, 2>>))

\* C26: when two instances of the same writer script run concurrently with the same
\* --out path, a reader still never observes a partly written snapshot, and every
\* snapshot that becomes visible at the out path is the complete output of exactly
\* one instance, although both instances use the same temporary file name.
C26_TwoWritersWholeSnapshots ==
    /\ rd_seen \in {Unread, ReadNoFile} \cup {ReadFile(Snapshot(id)) : id \in WriteIds}
    /\ wr_dir[OutPath] # 0 =>
           wr_inodes[wr_dir[OutPath]] \in {Snapshot(id) : id \in WriteIds}

-----------------------------------------------------------------------------
(* --watch: the polling loops of steam_library.py and steam_downloads.py *)

\* what a scan of the listed libraries finds: slot -> version of the file (0 = none)
View(disk, listed) ==
    [sl \in Slots |-> IF sl.lib \in listed THEN disk[sl].version ELSE 0]

\* mt: the greatest st_mtime over the manifest files of the libraries in ls
RECURSIVE MaxMtime(_, _, _)
MaxMtime(disk, ls, todo) ==
    IF todo = {} THEN 0
    ELSE LET sl == CHOOSE x \in todo : TRUE
             rest == MaxMtime(disk, ls, todo \ {sl})
         IN  IF sl.lib \in ls /\ disk[sl].mtime > rest THEN disk[sl].mtime ELSE rest

\* the state when the loop is entered: main has written a first snapshot
InitWatch ==
    /\ LibIdle
    /\ KVIdle
    /\ LocIdle
    /\ DlIdle
    /\ GeIdle
    /\ WrIdle
    /\ wt_script \in {"steam_library", "steam_downloads"}
    /\ wt_listed \in {{1}, {1, 2}}
    /\ wt_disk \in [Slots -> {Absent, [mtime |-> 1, version |-> 1]}]
    /\ wt_clock = 1
    /\ wt_libs = wt_listed
    /\ wt_last_mtime = 0
    /\ wt_snapshot = View(wt_disk, wt_listed)
    /\ wt_pc = "poll"

\* one iteration of the loop: regenerate when the greatest mtime has grown
Poll ==
    /\ wt_pc = "poll"
    /\ LET mt == MaxMtime(wt_disk, wt_libs, Slots)
       IN  IF mt > wt_last_mtime
           THEN /\ wt_last_mtime' = mt
                /\ wt_libs' = IF wt_script = "steam_library" THEN wt_listed ELSE wt_libs
                /\ wt_snapshot' = View(wt_disk, wt_listed)
           ELSE UNCHANGED <<wt_last_mtime, wt_libs, wt_snapshot>>
    /\ wt_pc' = "sleep"
    /\ UNCHANGED <<wt_script, wt_listed, wt_disk, wt_clock>>
    /\ UNCHANGED <<libvars, kvvars, locvars, dlvars, gevars, wrvars>>

\* time.sleep(interval) returns
Sleep ==
    /\ wt_pc = "sleep"
    /\ wt_pc' = "poll"
    /\ UNCHANGED <<wt_script, wt_listed, wt_disk, wt_clock, wt_libs, wt_last_mtime, wt_snapshot>>
    /\ UNCHANGED <<libvars, kvvars, locvars, dlvars, gevars, wrvars>>

\* Steam creates or rewrites a manifest file
WriteManifest ==
    /\ wt_script # "none"
    /\ wt_clock <= MaxChanges
    /\ \E sl \in Slots :
          wt_disk' = [wt_disk EXCEPT ![sl] = [mtime |-> wt_clock + 1, version |-> wt_clock + 1]]
    /\ wt_clock' = wt_clock + 1
    /\ UNCHANGED <<wt_script, wt_listed, wt_libs, wt_last_mtime, wt_snapshot, wt_pc>>
    /\ UNCHANGED <<libvars, kvvars, locvars, dlvars, gevars, wrvars>>

\* Steam deletes a manifest file (the game is uninstalled)
DeleteManifest ==
    /\ wt_script # "none"
    /\ wt_clock <= MaxChanges
    /\ \E sl \in Slots :
          /\ wt_disk[sl] # Absent
          /\ wt_disk' = [wt_disk EXCEPT ![sl] = Absent]
    /\ wt_clock' = wt_clock + 1
    /\ UNCHANGED <<wt_script, wt_listed, wt_libs, wt_last_mtime, wt_snapshot, wt_pc>>
    /\ UNCHANGED <<libvars, kvvars, locvars, dlvars, gevars, wrvars>>

\* a library folder is added to the descriptor
AddLibrary ==
    /\ wt_script # "none"
    /\ wt_clock <= MaxChanges
    /\ 2 \notin wt_listed
    /\ wt_listed' = wt_listed \cup {2}
    /\ wt_clock' = wt_clock + 1
    /\ UNCHANGED <<wt_script, wt_disk, wt_libs, wt_last_mtime, wt_snapshot, wt_pc>>
    /\ UNCHANGED <<libvars, kvvars, locvars, dlvars, gevars, wrvars>>

NextWatch == Poll \/ Sleep \/ WriteManifest \/ DeleteManifest \/ AddLibrary

SpecWatch == InitWatch /\ [][NextWatch]_vars

\* the loop keeps running: each iteration ends and each sleep(interval) returns
SpecWatchFair == InitWatch /\ [][NextWatch]_vars /\ WF_vars(Poll) /\ WF_vars(Sleep)

\* the snapshot is not what a scan of the disk gives now
Stale == wt_snapshot # View(wt_disk, wt_listed)

\* C24: in --watch mode of steam_library.py and steam_downloads.py, every change to
\* the manifests (a manifest file created, rewritten or deleted in any library
\* folder, including a library added to the descriptor after start-up) is followed
\* by a regeneration of the snapshot within a bounded number of polling iterations,
\* so the snapshot never stays stale for ever.
C24_StaleSnapshotIsRegenerated == Stale ~> ~Stale

====
